---- MODULE Spec2Model ----
(***************************************************************************)
(* A model of pyfr24's export pipeline and flight disambiguation:          *)
(* FR24API.smart_export_flight and FR24API.export_flight_data              *)
(* (src/pyfr24/client.py), with the HTTP gateway _make_request and the     *)
(* date validation they go through, the files an export writes, the        *)
(* flight-summary methods and get_flight_ids_by_registration called        *)
(* directly, configure_logging (src/pyfr24/logging.py) and the             *)
(* smart-export command (src/pyfr24/cli.py).                               *)
(*                                                                         *)
(* Encoding of Python values                                               *)
(*   str            a sequence of one-character strings, so that slicing,  *)
(*                  replace and lexicographic comparison are computed      *)
(*   None | x       <<>> for None, <<x>> for a value x                     *)
(*   dict           a function from the keys that are present to values    *)
(*   list           a sequence                                             *)
(*   file           data.csv is its text, the other files the sequence of  *)
(*                  the parts that vary (features, coordinate lines)       *)
(* auto_select mixes types, so it is a tagged record.                      *)
(***************************************************************************)
EXTENDS Integers, Sequences, FiniteSets, TLC

VARIABLES
    pc,             \* position of the call: "start", "export", "done";
                    \* "logging" and "cli" before configure_logging, the command
    entry,          \* what is called: "smart", "export", "summary",
                    \* "flight_ids", "logging", "cli"
    call,           \* arguments of a direct call of a flight-summary method
    flight_number,  \* smart_export_flight argument
    date,           \* smart_export_flight argument
    output_dir_arg, \* argument output_dir as the caller passed it
    output_dir,     \* output_dir handed to export_flight_data
    auto_select,    \* smart_export_flight argument
    summary_mode,   \* smart_export_flight argument
    requests,       \* _make_request calls so far, in order, with what each raised
    summary,        \* smart_export_flight local: None | the decoded summary
    data,           \* smart_export_flight local: summary.get('data', [])
    selected,       \* smart_export_flight local: None | record
    flight_id,      \* flight id handed to export_flight_data
    tracks_json,    \* export_flight_data local data: None | the decoded body
    tracks,         \* export_flight_data local: the extracted point list
    sorted_tracks,  \* export_flight_data local: the sorted list, <<>> before
    dirs,           \* directories that exist on disk
    files,          \* files written: records [dir, name]
    contents,       \* what each file of files holds
    fault,          \* the library call of a chart that fails in this call
    http,           \* None | what the server did with the last request
    first_run,      \* None | what a first call of export_flight_data left
    export_ret,     \* outcome of export_flight_data
    result,         \* outcome of smart_export_flight
    logger,         \* the logger 'pyfr24': its level and its handlers
    log_calls,      \* the calls of configure_logging so far, in order
    args,           \* None | the parsed command line of the smart-export command
    env,            \* None | what the server holds and what the user types
    exit_status     \* None | the exit status of the command

vars == <<pc, entry, call, flight_number, date, output_dir_arg, output_dir, auto_select,
          summary_mode, requests, summary, data, selected, flight_id, tracks_json,
          tracks, sorted_tracks, dirs, files, contents, fault, http, first_run,
          export_ret, result, logger, log_calls, args, env, exit_status>>

----------------------------------------------------------------------------
(* Bounds of the model *)

\* most candidates in one flight-summary response
MaxCands == 3
\* most points in one tracks response
MaxTracks == 2
\* most calls of configure_logging in one process
MaxLogCalls == 3

----------------------------------------------------------------------------
(* Python values *)

None == <<>>
Some(x) == <<x>>
IsNone(o) == o = <<>>
Val(o) == o[1]

Min2(a, b) == IF a <= b THEN a ELSE b

\* characters in code point order: Python compares str by code point
CodePointOrder ==
    <<" ", "-", "/", "0", "1", "2", "3", "4", "5", "6", "7", "8", "9", ":",
      "A", "B", "C", "D", "E", "F", "G", "H", "I", "J", "K", "L", "M", "N",
      "O", "P", "Q", "R", "S", "T", "U", "V", "W", "X", "Y", "Z", "_",
      "a", "b", "c", "d", "e", "f", "g", "h", "i", "j", "k", "l", "m", "n",
      "o", "p", "q", "r", "s", "t", "u", "v", "w", "x", "y", "z">>

Ord == [c \in {CodePointOrder[i] : i \in 1..Len(CodePointOrder)} |->
            CHOOSE i \in 1..Len(CodePointOrder) : CodePointOrder[i] = c]

\* a < b on str
StrLt(a, b) ==
    \E i \in 1..(Min2(Len(a), Len(b)) + 1) :
        /\ \A j \in 1..(i - 1) : a[j] = b[j]
        /\ \/ i > Len(a) /\ i <= Len(b)
           \/ i <= Len(a) /\ i <= Len(b) /\ Ord[a[i]] < Ord[b[i]]

\* s[:n]
Prefix(s, n) == SubSeq(s, 1, Min2(n, Len(s)))

\* s.count(c)
Count(s, c) == Cardinality({i \in 1..Len(s) : s[i] = c})

\* s.replace(c, r) for a one-character c
RECURSIVE Replace(_, _, _)
Replace(s, c, r) ==
    IF s = <<>> THEN <<>>
    ELSE (IF Head(s) = c THEN r ELSE <<Head(s)>>) \o Replace(Tail(s), c, r)

IsDigit(c) == c \in {"0", "1", "2", "3", "4", "5", "6", "7", "8", "9"}

\* re.match of a pattern ^...$ made of \d (written "d") and literals: $
\* matches at the end of the string and before a newline that ends it
ReMatch(pattern, s) ==
    /\ \/ Len(s) = Len(pattern)
       \/ Len(s) = Len(pattern) + 1 /\ s[Len(s)] = "\n"
    /\ \A i \in 1..Len(pattern) :
          IF pattern[i] = "d" THEN IsDigit(s[i]) ELSE s[i] = pattern[i]

\* d.get(k, default)
Get(d, k, default) == IF k \in DOMAIN d THEN d[k] ELSE default

\* d.get(k1) or d.get(k2) or ... or default, on str values
RECURSIVE GetOr(_, _, _)
GetOr(d, keys, default) ==
    IF keys = <<>> THEN default
    ELSE IF Get(d, Head(keys), <<>>) # <<>> THEN d[Head(keys)]
    ELSE GetOr(d, Tail(keys), default)

----------------------------------------------------------------------------
(* String literals of the source and of the inputs *)

S_T000000Z == <<"T", "0", "0", ":", "0", "0", ":", "0", "0", "Z">>
S_T235959Z == <<"T", "2", "3", ":", "5", "9", ":", "5", "9", "Z">>
S_data_slash == <<"d", "a", "t", "a", "/">>
S_ORIG == <<"O", "R", "I", "G">>
S_DEST == <<"D", "E", "S", "T">>
S_UNKNOWNID == <<"U", "N", "K", "N", "O", "W", "N", "I", "D">>
S_NoFlightsFoundFor ==
    <<"N", "o", " ", "f", "l", "i", "g", "h", "t", "s", " ", "f", "o", "u",
      "n", "d", " ", "f", "o", "r", " ">>
S_on == <<" ", "o", "n", " ">>
S_InvalidAutoSelect ==
    <<"I", "n", "v", "a", "l", "i", "d", " ", "a", "u", "t", "o", "_", "s",
      "e", "l", "e", "c", "t", " ", "v", "a", "l", "u", "e">>

\* inputs
FN_UA_2151 == <<"U", "A", " ", "2", "1", "5", "1">>
FN_UA_slash == <<"U", "A", "/", "2", "1">>
D_day == <<"2", "0", "2", "5", "-", "0", "4", "-", "2", "2">>
D_iso == <<"2", "0", "2", "5", "-", "0", "4", "-", "2", "2", "T", "1", "0",
           ":", "0", "0", ":", "0", "0", "Z">>
D_bad == <<"2", "0", "2", "5", "/", "0", "4", "/", "2", "2">>
D_newline == <<"2", "0", "2", "5", "-", "0", "4", "-", "2", "2", "\n">>
T1000 == <<"2", "0", "2", "5", "-", "0", "4", "-", "2", "2", "T", "1", "0",
           ":", "0", "0", ":", "0", "0", "Z">>
T1400 == <<"2", "0", "2", "5", "-", "0", "4", "-", "2", "2", "T", "1", "4",
           ":", "0", "0", ":", "0", "0", "Z">>
T1350 == <<"2", "0", "2", "5", "-", "0", "4", "-", "2", "2", "T", "1", "3",
           ":", "5", "0", ":", "0", "0", "Z">>
T0900 == <<"2", "0", "2", "5", "-", "0", "4", "-", "2", "2", "T", "0", "9",
           ":", "0", "0", ":", "0", "0", "Z">>
KEWR == <<"K", "E", "W", "R">>
KDEN == <<"K", "D", "E", "N">>
KORD == <<"K", "O", "R", "D">>
K_EWR == <<"K", "/", "E", "W", "R">>
ID36 == <<"3", "a", "0", "1", "b", "0", "3", "6">>
ID37 == <<"3", "a", "0", "1", "b", "0", "3", "7">>
ID38 == <<"3", "a", "0", "1", "b", "0", "3", "8">>
OutArg == <<"o", "u", "t">>

----------------------------------------------------------------------------
(* HTTP gateway: FR24API._make_request *)

\* what the server and the network do with one request: the status the
\* server answers the request and every retry of it with, a connection that
\* fails, or another failure of the transport (too many redirects)
Statuses == {200, 400, 401, 403, 404, 429, 500, 501, 503}
HttpOutcomes ==
    [transport : {"response"}, status : Statuses]
        \cup [transport : {"connection_error", "request_error"}, status : {0}]

\* Retry(total=3, status_forcelist=...) mounted on the session (lines 126-133)
status_forcelist == {429, 500, 502, 503, 504}

\* self.session.request: the requests exception it raises, "" when it
\* returns the response. A status of status_forcelist is retried, and when
\* the retries are used up the adapter raises RetryError (raise_on_status)
SessionRequest(o) ==
    IF o.transport = "connection_error" THEN "ConnectionError"
    ELSE IF o.transport # "response" THEN "RequestException"
    ELSE IF o.status \in status_forcelist THEN "RetryError"
    ELSE ""

\* the exception _make_request raises for an outcome, "" when it returns
MakeRequest(o) ==
    IF SessionRequest(o) = "ConnectionError" THEN "FR24ConnectionError"
    ELSE IF SessionRequest(o) # "" THEN "FR24Error"
    ELSE IF o.status = 401 THEN "FR24AuthenticationError"
    ELSE IF o.status = 403 THEN "FR24AuthenticationError"
    ELSE IF o.status = 404 THEN "FR24NotFoundError"
    ELSE IF o.status = 429 THEN "FR24RateLimitError"
    ELSE IF o.status >= 500 THEN "FR24ServerError"
    ELSE IF o.status >= 400 THEN "FR24ClientError"
    ELSE ""

----------------------------------------------------------------------------
(* FR24API._validate_and_format_date *)

iso_pattern ==
    <<"d", "d", "d", "d", "-", "d", "d", "-", "d", "d", "T", "d", "d", ":",
      "d", "d", ":", "d", "d", "Z">>
date_pattern == <<"d", "d", "d", "d", "-", "d", "d", "-", "d", "d">>

\* [ok, val]: val is the formatted date, ok = FALSE is FR24ValidationError
ValidateAndFormatDate(date_str) ==
    IF ReMatch(iso_pattern, date_str) THEN [ok |-> TRUE, val |-> date_str]
    ELSE IF ReMatch(date_pattern, date_str)
         THEN [ok |-> TRUE, val |-> date_str \o S_T000000Z]
    ELSE [ok |-> FALSE, val |-> <<>>]

----------------------------------------------------------------------------
(* FR24API.get_flight_summary_full / get_flight_summary_light, up to the   *)
(* request: [exc, params]. The two methods differ in the endpoint only.    *)

SummaryParams(flights, flight_datetime_from, flight_datetime_to) ==
    LET f == ValidateAndFormatDate(flight_datetime_from)
        t == ValidateAndFormatDate(flight_datetime_to)
        p0 == IF flights # <<>> THEN [flights |-> flights] ELSE <<>>
        p1 == IF flight_datetime_from # <<>>
              THEN [k \in DOMAIN p0 \cup {"flight_datetime_from"} |->
                      IF k = "flight_datetime_from" THEN f.val ELSE p0[k]]
              ELSE p0
        p2 == IF flight_datetime_to # <<>>
              THEN [k \in DOMAIN p1 \cup {"flight_datetime_to"} |->
                      IF k = "flight_datetime_to" THEN t.val ELSE p1[k]]
              ELSE p1
    IN  IF flights = <<>> THEN [exc |-> "FR24ValidationError", params |-> <<>>]
        ELSE IF flight_datetime_from # <<>> /\ ~f.ok
             THEN [exc |-> "FR24ValidationError", params |-> <<>>]
        ELSE IF flight_datetime_to # <<>> /\ ~t.ok
             THEN [exc |-> "FR24ValidationError", params |-> <<>>]
        ELSE [exc |-> "", params |-> p2]

SummaryEndpoint(mode) ==
    IF mode = "full" THEN "flight-summary/full" ELSE "flight-summary/light"

\* FR24API._validate_flights, for one identifier: it matches
\* flight_number_pattern ^[A-Z0-9]{2}\d{1,4}[A-Z]?$ or flight_id_pattern
\* ^[a-zA-Z0-9_-]+$. No method of the client calls _validate_flights.
ValidateFlights(flight) ==
    LET Upper(c) == c \in DOMAIN Ord /\ Ord[c] >= Ord["A"] /\ Ord[c] <= Ord["Z"]
        Lower(c) == c \in DOMAIN Ord /\ Ord[c] >= Ord["a"] /\ Ord[c] <= Ord["z"]
        flight_number_pattern ==
            /\ Len(flight) >= 3
            /\ \A i \in 1..2 : Upper(flight[i]) \/ IsDigit(flight[i])
            /\ \E n \in 1..4 :
                  /\ Len(flight) \in {2 + n, 3 + n}
                  /\ \A i \in 3..(2 + n) : IsDigit(flight[i])
                  /\ Len(flight) = 3 + n => Upper(flight[3 + n])
        flight_id_pattern ==
            /\ flight # <<>>
            /\ \A i \in 1..Len(flight) :
                  \/ Upper(flight[i]) \/ Lower(flight[i]) \/ IsDigit(flight[i])
                  \/ flight[i] \in {"_", "-"}
    IN  flight # <<>> /\ (flight_number_pattern \/ flight_id_pattern)

----------------------------------------------------------------------------
(* FR24API.smart_export_flight: the pure parts *)

\* step 0: the date range
DateFrom(d) == IF Len(d) = 10 /\ Count(d, "-") = 2 THEN d \o S_T000000Z ELSE d
DateTo(d) == IF Len(d) = 10 /\ Count(d, "-") = 2 THEN d \o S_T235959Z ELSE d

\* summary.get('data', [])
SummaryData(s) == Get(s, "data", <<>>)

\* TakeoffKey without the fallback to first_seen
TakeoffKey_NoFallback(x) == Get(x, "datetime_takeoff", <<>>)

\* the key of max/min: x.get('datetime_takeoff', '') or x.get('first_seen', '')
TakeoffKey(x) == GetOr(x, <<"datetime_takeoff", "first_seen">>, <<>>)

\* max(data, key=...): Python returns the first element with the largest key
PyMaxIndex(d) ==
    CHOOSE i \in 1..Len(d) :
        /\ \A j \in 1..Len(d) : ~StrLt(TakeoffKey(d[i]), TakeoffKey(d[j]))
        /\ \A j \in 1..(i - 1) : StrLt(TakeoffKey(d[j]), TakeoffKey(d[i]))

\* min(data, key=...): the first element with the smallest key
PyMinIndex(d) ==
    CHOOSE i \in 1..Len(d) :
        /\ \A j \in 1..Len(d) : ~StrLt(TakeoffKey(d[j]), TakeoffKey(d[i]))
        /\ \A j \in 1..(i - 1) : StrLt(TakeoffKey(d[i]), TakeoffKey(d[j]))

\* auto_select values: None, a str or an int
AS_None == [type |-> "none", str |-> "", int |-> 0]
AS_Str(s) == [type |-> "str", str |-> s, int |-> 0]
AS_Int(i) == [type |-> "int", str |-> "", int |-> i]

\* SelectCandidate with an absent auto_select read as 'latest'
SelectCandidate_DefaultLatest(d, a) ==
    IF Len(d) = 1 THEN [kind |-> "selected", index |-> 1]
    ELSE IF a.type = "none" \/ (a.type = "str" /\ a.str = "latest")
         THEN [kind |-> "selected", index |-> PyMaxIndex(d)]
    ELSE IF a.type = "str" /\ a.str = "earliest"
         THEN [kind |-> "selected", index |-> PyMinIndex(d)]
    ELSE IF a.type = "int" /\ 0 <= a.int /\ a.int < Len(d)
         THEN [kind |-> "selected", index |-> a.int + 1]
    ELSE [kind |-> "invalid", index |-> 0]

\* SelectCandidate that looks at auto_select before the single-candidate case
SelectCandidate_AutoFirst(d, a) ==
    IF a.type = "none" THEN
        IF Len(d) = 1 THEN [kind |-> "selected", index |-> 1]
        ELSE [kind |-> "options", index |-> 0]
    ELSE IF a.type = "str" /\ a.str = "latest"
         THEN [kind |-> "selected", index |-> PyMaxIndex(d)]
    ELSE IF a.type = "str" /\ a.str = "earliest"
         THEN [kind |-> "selected", index |-> PyMinIndex(d)]
    ELSE IF a.type = "int" /\ 0 <= a.int /\ a.int < Len(d)
         THEN [kind |-> "selected", index |-> a.int + 1]
    ELSE [kind |-> "invalid", index |-> 0]

\* SelectCandidate testing "if auto_select" instead of "is not None"
SelectCandidate_Truthy(d, a) ==
    IF Len(d) = 1 \/ (a.type = "str" /\ a.str # "") \/ (a.type = "int" /\ a.int # 0)
    THEN
        IF Len(d) = 1 THEN [kind |-> "selected", index |-> 1]
        ELSE IF a.type = "str" /\ a.str = "latest"
             THEN [kind |-> "selected", index |-> PyMaxIndex(d)]
        ELSE IF a.type = "str" /\ a.str = "earliest"
             THEN [kind |-> "selected", index |-> PyMinIndex(d)]
        ELSE IF a.type = "int" /\ 0 <= a.int /\ a.int < Len(d)
             THEN [kind |-> "selected", index |-> a.int + 1]
        ELSE [kind |-> "invalid", index |-> 0]
    ELSE [kind |-> "options", index |-> 0]

\* SelectCandidate without the lower bound: data[-1] is the last candidate
SelectCandidate_NegativeIndex(d, a) ==
    IF Len(d) = 1 \/ a.type # "none" THEN
        IF Len(d) = 1 THEN [kind |-> "selected", index |-> 1]
        ELSE IF a.type = "str" /\ a.str = "latest"
             THEN [kind |-> "selected", index |-> PyMaxIndex(d)]
        ELSE IF a.type = "str" /\ a.str = "earliest"
             THEN [kind |-> "selected", index |-> PyMinIndex(d)]
        ELSE IF a.type = "int" /\ -Len(d) <= a.int /\ a.int < Len(d)
             THEN [kind |-> "selected",
                   index |-> IF a.int < 0 THEN Len(d) + a.int + 1 ELSE a.int + 1]
        ELSE [kind |-> "invalid", index |-> 0]
    ELSE [kind |-> "options", index |-> 0]

\* SelectCandidate that falls back to the first candidate when auto_select
\* is invalid
SelectCandidate_InvalidAsFirst(d, a) ==
    IF Len(d) = 1 \/ a.type # "none" THEN
        IF Len(d) = 1 THEN [kind |-> "selected", index |-> 1]
        ELSE IF a.type = "str" /\ a.str = "latest"
             THEN [kind |-> "selected", index |-> PyMaxIndex(d)]
        ELSE IF a.type = "str" /\ a.str = "earliest"
             THEN [kind |-> "selected", index |-> PyMinIndex(d)]
        ELSE IF a.type = "int" /\ 0 <= a.int /\ a.int < Len(d)
             THEN [kind |-> "selected", index |-> a.int + 1]
        ELSE [kind |-> "selected", index |-> 1]
    ELSE [kind |-> "options", index |-> 0]

\* step 2, the choice: [kind, index] with kind "selected" (index is the
\* 1-based position in data), "invalid" or "options"
SelectCandidate(d, a) ==
    IF Len(d) = 1 \/ a.type # "none" THEN
        IF Len(d) = 1 THEN [kind |-> "selected", index |-> 1]
        ELSE IF a.type = "str" /\ a.str = "latest"
             THEN [kind |-> "selected", index |-> PyMaxIndex(d)]
        ELSE IF a.type = "str" /\ a.str = "earliest"
             THEN [kind |-> "selected", index |-> PyMinIndex(d)]
        ELSE IF a.type = "int" /\ 0 <= a.int /\ a.int < Len(d)
             THEN [kind |-> "selected", index |-> a.int + 1]
        ELSE [kind |-> "invalid", index |-> 0]
    ELSE [kind |-> "options", index |-> 0]

\* SafeFlight that keeps the spaces
SafeFlight_KeepSpaces(fn) == Replace(fn, "/", <<"_">>)

\* step 3: the output directory generated when none is given
SafeFlight(fn) == Replace(Replace(fn, "/", <<"_">>), " ", <<>>)
SafeCode(code) == Replace(code, "/", <<"_">>)
SelOrig(sel) == GetOr(sel, <<"orig_icao", "origin">>, S_ORIG)
SelDest(sel) ==
    GetOr(sel, <<"dest_icao_actual", "dest_icao", "destination">>, S_DEST)
SelDateStr(sel, d) ==
    Prefix(GetOr(sel, <<"datetime_takeoff", "first_seen">>, d), 10)
SelFlightId(sel) == GetOr(sel, <<"fr24_id", "id">>, S_UNKNOWNID)

SmartOutputDir(fn, d, sel) ==
    S_data_slash \o SafeFlight(fn) \o <<"_">> \o SelDateStr(sel, d) \o <<"_">>
        \o SafeCode(SelOrig(sel)) \o <<"-">> \o SafeCode(SelDest(sel))
        \o <<"_">> \o SelFlightId(sel)

\* NoFlightsResult whose message leaves the date out
NoFlightsResult_NoDate(fn, d) ==
    [output_dir |-> None, selected |-> None, options |-> <<>>,
     error |-> S_NoFlightsFoundFor \o fn]

\* InvalidResult without the error field
InvalidResult_NoError(d) ==
    [output_dir |-> None, selected |-> None, options |-> d]

\* the dicts smart_export_flight returns
NoFlightsResult(fn, d) ==
    [output_dir |-> None, selected |-> None, options |-> <<>>,
     error |-> S_NoFlightsFoundFor \o fn \o S_on \o d]
InvalidResult(d) ==
    [output_dir |-> None, selected |-> None, options |-> d,
     error |-> S_InvalidAutoSelect]
OptionsResult(d) ==
    [output_dir |-> None, selected |-> None, options |-> d]
\* the result of line 856 that reports a directory whatever was exported
ExportedResult_AlwaysDir(export_dir, sel, d) ==
    [output_dir |-> Some(<<"d", "i", "r">>), selected |-> Some(sel), options |-> d]

\* line 856: output_dir is what export_flight_data returned
ExportedResult(export_dir, sel, d) ==
    [output_dir |-> export_dir, selected |-> Some(sel), options |-> d]

----------------------------------------------------------------------------
(* FR24API.export_flight_data: the pure parts *)

\* a decoded JSON body of the tracks endpoint: a list (items), an object
\* (obj) or anything else (a string, a number, null)
JsonList(items) == [type |-> "list", items |-> items, obj |-> <<>>]
JsonDict(obj) == [type |-> "dict", items |-> <<>>, obj |-> obj]
JsonOther == [type |-> "other", items |-> <<>>, obj |-> <<>>]

\* a list item that is no object is the function with the one key "scalar"
IsDict(x) == "scalar" \notin DOMAIN x

\* ExtractTracks that unwraps the first item of a list of any length
ExtractTracks_FirstItem(d) ==
    IF d.type = "list" THEN
        IF Len(d.items) >= 1 /\ IsDict(d.items[1]) /\ "tracks" \in DOMAIN d.items[1]
        THEN [ok |-> TRUE, tracks |-> d.items[1].tracks]
        ELSE [ok |-> TRUE, tracks |-> d.items]
    ELSE IF d.type = "dict" THEN [ok |-> TRUE, tracks |-> Get(d.obj, "tracks", <<>>)]
    ELSE [ok |-> FALSE, tracks |-> <<>>]

\* the shape sniffing: [ok, tracks]; ok = FALSE is FR24ValidationError
ExtractTracks(d) ==
    IF d.type = "list" THEN
        IF Len(d.items) = 1 /\ IsDict(d.items[1]) /\ "tracks" \in DOMAIN d.items[1]
        THEN [ok |-> TRUE, tracks |-> d.items[1].tracks]
        ELSE [ok |-> TRUE, tracks |-> d.items]
    ELSE IF d.type = "dict" THEN [ok |-> TRUE, tracks |-> Get(d.obj, "tracks", <<>>)]
    ELSE [ok |-> FALSE, tracks |-> <<>>]

\* the sort key x.get("timestamp", ""): None | str
TimestampKey(x) == Get(x, "timestamp", Some(<<>>))

\* what sorted(tracks, key=...) raises: x.get on a non-object is an
\* AttributeError, ordering None against anything is a TypeError
SortRaises(t) ==
    IF \E i \in 1..Len(t) : ~IsDict(t[i]) THEN "AttributeError"
    ELSE IF Len(t) >= 2 /\ \E i \in 1..Len(t) : IsNone(TimestampKey(t[i]))
         THEN "TypeError"
    ELSE ""

\* InsertByTimestamp that leaves the list in the order of arrival
InsertByTimestamp_Append(x, s) == Append(s, x)

\* sorted() is stable: an element goes after every element not greater
InsertByTimestamp(x, s) ==
    LET k == Cardinality({i \in 1..Len(s) :
                 ~StrLt(Val(TimestampKey(x)), Val(TimestampKey(s[i])))})
    IN  SubSeq(s, 1, k) \o <<x>> \o SubSeq(s, k + 1, Len(s))

\* SortedTracks that returns the list in reverse order of arrival
SortedTracks_Reversed(t) == [i \in 1..Len(t) |-> t[Len(t) + 1 - i]]

RECURSIVE SortedTracks(_)
SortedTracks(t) ==
    IF t = <<>> THEN <<>>
    ELSE InsertByTimestamp(t[Len(t)], SortedTracks(SubSeq(t, 1, Len(t) - 1)))

\* os.path.join("data", flight_id) when output_dir is None
ExportDir(od, fid) == IF IsNone(od) THEN S_data_slash \o fid ELSE Val(od)

\* if not tracks (line 538), that never takes the early return
NoTracks_Never(t) == FALSE

\* if not tracks (line 538)
NoTracks(t) == t = <<>>

\* str(n) for an int
RECURSIVE StrOfInt(_)
StrOfInt(n) ==
    IF n < 0 THEN <<"-">> \o StrOfInt(-n)
    ELSE IF n < 10 THEN <<<<"0", "1", "2", "3", "4", "5", "6", "7", "8", "9">>[n + 1]>>
    ELSE StrOfInt(n \div 10) \o StrOfInt(n % 10)

\* the fields of a track point that hold a number; the others hold a str
NumberFields == {"lat", "lon", "alt", "gspeed", "vspeed", "track"}

\* str(v) of the value of field k, as an f-string and print render it
PyStr(k, o) ==
    IF IsNone(o) THEN <<"N", "o", "n", "e">>
    ELSE IF k \in NumberFields THEN StrOfInt(Val(o))
    ELSE Val(o)

\* sep.join(parts)
RECURSIVE Join(_, _)
Join(parts, sep) ==
    IF parts = <<>> THEN <<>>
    ELSE IF Len(parts) = 1 THEN parts[1]
    ELSE parts[1] \o sep \o Join(Tail(parts), sep)

\* the CSV columns (line 553)
fieldnames ==
    <<"timestamp", "lat", "lon", "alt", "gspeed", "vspeed", "track", "squawk",
      "callsign", "source">>

\* CsvCell that writes None as str(None)
CsvCell_StrNone(track, k) ==
    IF k \notin DOMAIN track THEN <<>> ELSE PyStr(k, track[k])

\* one cell: track.get(k, ""), which the csv writer renders with str(),
\* and None as the empty string
CsvCell(track, k) ==
    IF k \notin DOMAIN track THEN <<>>
    ELSE IF IsNone(track[k]) THEN <<>>
    ELSE PyStr(k, track[k])

\* csv.writer.writerow: QUOTE_MINIMAL, delimiter ",", lineterminator "\r\n"
CsvLine(cells) ==
    LET Special(c) == c \in {",", "\"", "\r", "\n"}
        Quote(c) == IF \E i \in 1..Len(c) : Special(c[i])
                    THEN <<"\"">> \o Replace(c, "\"", <<"\"", "\"">>) \o <<"\"">>
                    ELSE c
    IN  Join([i \in 1..Len(cells) |-> Quote(cells[i])], <<",">>) \o <<"\r", "\n">>

\* the name of a column as the cell of the header row
ColumnName(k) ==
    CASE k = "timestamp" -> <<"t", "i", "m", "e", "s", "t", "a", "m", "p">>
      [] k = "lat" -> <<"l", "a", "t">>
      [] k = "lon" -> <<"l", "o", "n">>
      [] k = "alt" -> <<"a", "l", "t">>
      [] k = "gspeed" -> <<"g", "s", "p", "e", "e", "d">>
      [] k = "vspeed" -> <<"v", "s", "p", "e", "e", "d">>
      [] k = "track" -> <<"t", "r", "a", "c", "k">>
      [] k = "squawk" -> <<"s", "q", "u", "a", "w", "k">>
      [] k = "callsign" -> <<"c", "a", "l", "l", "s", "i", "g", "n">>
      [] k = "source" -> <<"s", "o", "u", "r", "c", "e">>

\* data.csv: writeheader, then one writerow per track (lines 554-559)
CsvText(sorted) ==
    CsvLine([j \in 1..Len(fieldnames) |-> ColumnName(fieldnames[j])])
        \o Join([i \in 1..Len(sorted) |->
                    CsvLine([j \in 1..Len(fieldnames) |->
                                CsvCell(sorted[i], fieldnames[j])])], <<>>)

\* csv.reader on the text, from the field that starts at position p: row is
\* the record being read, rows the records read. A field that starts with a
\* quote runs to its closing quote, and "" inside it reads as one quote;
\* another field runs to the next comma or line end
RECURSIVE CsvParse(_, _, _, _)
CsvParse(s, p, row, rows) ==
    IF p > Len(s) THEN (IF row = <<>> THEN rows ELSE Append(rows, Append(row, <<>>)))
    ELSE
    LET Quotes(a, b) == Cardinality({j \in a..b : s[j] = "\""})
        Closes(q) == /\ s[q] = "\""
                     /\ Quotes(p + 1, q) % 2 = 1
                     /\ (q = Len(s) \/ s[q + 1] # "\"")
        Ends(q) == s[q] \in {",", "\r", "\n"}
        stop == IF s[p] = "\""
                THEN IF \E q \in (p + 1)..Len(s) : Closes(q)
                     THEN 1 + CHOOSE q \in (p + 1)..Len(s) :
                                 Closes(q) /\ \A r \in (p + 1)..(q - 1) : ~Closes(r)
                     ELSE Len(s) + 1
                ELSE IF \E q \in p..Len(s) : Ends(q)
                     THEN CHOOSE q \in p..Len(s) :
                             Ends(q) /\ \A r \in p..(q - 1) : ~Ends(r)
                     ELSE Len(s) + 1
        kept == {j \in (p + 1)..(stop - 2) :
                    ~(s[j] = "\"" /\ Quotes(p + 1, j) % 2 = 0)}
        field == IF s[p] = "\""
                 THEN [i \in 1..Cardinality(kept) |->
                         s[CHOOSE j \in kept :
                              Cardinality({k \in kept : k <= j}) = i]]
                 ELSE SubSeq(s, p, stop - 1)
    IN  IF stop > Len(s) THEN Append(rows, Append(row, field))
        ELSE IF s[stop] = "," THEN CsvParse(s, stop + 1, Append(row, field), rows)
        ELSE CsvParse(s,
                      IF s[stop] = "\r" /\ stop < Len(s) /\ s[stop + 1] = "\n"
                      THEN stop + 2 ELSE stop + 1,
                      <<>>, Append(rows, Append(row, field)))

\* points.geojson: one Feature per track (lines 567-576)
PointFeatures(sorted) ==
    [i \in 1..Len(sorted) |->
        [coordinates |-> <<Get(sorted[i], "lon", None), Get(sorted[i], "lat", None)>>,
         properties |-> sorted[i]]]

\* lon is not None and lat is not None (lines 93 and 587)
HasLonLat(track) ==
    ~IsNone(Get(track, "lon", None)) /\ ~IsNone(Get(track, "lat", None))

\* LineCoordinates that keeps a place for every track
LineCoordinates_NullPadded(sorted) ==
    [i \in 1..Len(sorted) |->
        <<Get(sorted[i], "lon", None), Get(sorted[i], "lat", None)>>]

\* line.geojson: the coordinates of the LineString (lines 583-588)
LineCoordinates(sorted) ==
    LET kept == SelectSeq(sorted, HasLonLat)
    IN  [i \in 1..Len(kept) |-> <<kept[i].lon, kept[i].lat>>]

\* _create_kml_from_tracks: the list coordinates (lines 88-94)
KmlCoordinates(t) ==
    LET kept == SelectSeq(t, HasLonLat)
    IN  [i \in 1..Len(kept) |->
            PyStr("lon", kept[i].lon) \o <<",">> \o PyStr("lat", kept[i].lat)
                \o <<",">> \o PyStr("alt", Get(kept[i], "alt", Some(0)))]

\* the four data files of one export
DataFiles == {"data.csv", "points.geojson", "line.geojson", "track.kml"}

\* what each data file holds: data.csv its text, the GeoJSON files their
\* features, track.kml its name and then its coordinate lines
DataContents(sorted, fid) ==
    [n \in DataFiles |->
        CASE n = "data.csv" -> CsvText(sorted)
          [] n = "points.geojson" -> PointFeatures(sorted)
          [] n = "line.geojson" ->
                <<[type |-> "LineString", coordinates |-> LineCoordinates(sorted)]>>
          [] n = "track.kml" -> <<fid>> \o KmlCoordinates(sorted)]

\* open(file, "w") that appends to what the file held
WriteFile_Append(old, new) == old \o new

\* open(file, "w") and the writes: the file holds the new content only
WriteFile(old, new) == new

\* the library call of a chart that fails in one call of export_flight_data
NoFault == [chart |-> "none", step |-> "none"]
Faults ==
    {NoFault}
        \cup [chart : {"map"},
              step : {"geometry", "reproject", "plot", "bounds", "basemap", "save"}]
        \cup [chart : {"speed", "altitude"}, step : {"plot", "save"}]

\* enhanced_plot_flight: "saved", "skipped" (it logs and returns) or "raised".
\* An empty DataFrame returns at once, a missing lon or lat column fails in
\* the first try block; the steps plot (subplots, ax.plot, tight_layout)
\* are outside every try block (lines 447-451, 489-491)
MapOutcome(t, f) ==
    IF \A i \in 1..Len(t) : DOMAIN t[i] = {} THEN "skipped"
    ELSE IF \/ \A i \in 1..Len(t) : "lon" \notin DOMAIN t[i]
            \/ \A i \in 1..Len(t) : "lat" \notin DOMAIN t[i] THEN "skipped"
    ELSE IF f.chart # "map" THEN "saved"
    ELSE IF f.step \in {"geometry", "reproject", "bounds", "basemap", "save"}
         THEN "skipped"
    ELSE "raised"

\* pd.to_datetime of a str timestamp: an empty string gives NaT, without an
\* exception; every other timestamp of the model is an ISO time, which is
\* parsed to that time
NaT == <<"N", "a", "T">>
ToDatetime(ts) == IF ts = <<>> THEN NaT ELSE ts

\* the points _plot_speed_chart (k = "gspeed", hi = 1000) and
\* _plot_altitude_chart (k = "alt", hi = 50000) hand to plt.plot: the lists
\* timestamps and speeds (altitudes), as one list of pairs
ChartPoints(t, k, hi) ==
    LET v(x) == IF k \notin DOMAIN x \/ IsNone(x[k]) THEN 0 ELSE Val(x[k])
        Kept(x) == /\ "timestamp" \in DOMAIN x
                   /\ ~IsNone(x.timestamp)
                   /\ v(x) >= 0
                   /\ v(x) <= hi
        kept == SelectSeq(t, Kept)
    IN  [i \in 1..Len(kept) |->
            [timestamp |-> ToDatetime(Val(kept[i].timestamp)),
             value |-> v(kept[i])]]

\* _plot_speed_chart and _plot_altitude_chart: no try block around the
\* plotting and savefig (lines 667-702, 745-782)
ChartOutcome(t, chart, k, hi, f) ==
    IF ChartPoints(t, k, hi) = <<>> THEN "skipped"
    ELSE IF f.chart = chart THEN "raised"
    ELSE "saved"

\* lines 612-622: the charts in order; the first that raises ends the call
ChartsRaise(t, f) ==
    \/ MapOutcome(t, f) = "raised"
    \/ ChartOutcome(t, "speed", "gspeed", 1000, f) = "raised"
    \/ ChartOutcome(t, "altitude", "alt", 50000, f) = "raised"

\* what an image shows: the points of the speed and of the altitude chart
ChartImage(t, n) ==
    IF n = "speed.png" THEN ChartPoints(t, "gspeed", 1000)
    ELSE IF n = "altitude.png" THEN ChartPoints(t, "alt", 50000)
    ELSE <<"image">>

ChartFiles(t, f) ==
    LET m == MapOutcome(t, f)
        s == ChartOutcome(t, "speed", "gspeed", 1000, f)
        a == ChartOutcome(t, "altitude", "alt", 50000, f)
    IN  (IF m = "saved" THEN {"map.png"} ELSE {})
            \cup (IF m # "raised" /\ s = "saved" THEN {"speed.png"} ELSE {})
            \cup (IF m # "raised" /\ s # "raised" /\ a = "saved"
                  THEN {"altitude.png"} ELSE {})

\* the outcome of one call
Pending == [kind |-> "pending", dir |-> None, exc |-> ""]
Returned(dir) == [kind |-> "return", dir |-> dir, exc |-> ""]
Raised(exc) == [kind |-> "raise", dir |-> None, exc |-> exc]

NoResult == [kind |-> "pending", value |-> <<>>, exc |-> ""]
ResultReturn(v) == [kind |-> "return", value |-> v, exc |-> ""]
ResultRaise(exc) == [kind |-> "raise", value |-> <<>>, exc |-> exc]

\* SmartOutcome that catches the exception and reports it in the error field
SmartOutcome_Caught(ret, sel, d) ==
    IF ret.kind = "raise"
    THEN ResultReturn([output_dir |-> None, selected |-> None, options |-> d,
                       error |-> <<"e", "r", "r", "o", "r">>])
    ELSE ResultReturn(ExportedResult(ret.dir, sel, d))

\* smart_export_flight's outcome, given export_flight_data's
SmartOutcome(ret, sel, d) ==
    IF ret.kind = "raise" THEN ResultRaise(ret.exc)
    ELSE ResultReturn(ExportedResult(ret.dir, sel, d))

----------------------------------------------------------------------------
(* pyfr24.logging: configure_logging *)

\* levels of the logging module
NOTSET == 0
DEBUG == 10
INFO == 20
WARNING == 30

S_message == <<"%", "(", "m", "e", "s", "s", "a", "g", "e", ")", "s">>
S_detailed == <<"%", "(", "a", "s", "c", "t", "i", "m", "e", ")", "s", " ", "-">>
S_custom == <<"%", "(", "l", "e", "v", "e", "l", "n", "a", "m", "e", ")", "s">>
LogA == <<"a", ".", "l", "o", "g">>

\* logging.getLogger('pyfr24') before configure_logging was ever called
NoLogger == [name |-> "pyfr24", level |-> NOTSET, handlers |-> <<>>]

\* the loop of lines 28-29 that leaves the handlers in place
RemoveHandlers_Keep(handlers) ==
    handlers

\* lines 28-29: every handler of the copy logger.handlers[:] is removed
RemoveHandlers(handlers) ==
    SelectSeq(handlers,
              LAMBDA h : \A i \in 1..Len(handlers) : handlers[i] # h)

\* the logger after configure_logging(level, log_file, log_format), the n-th
\* call; c holds None for an argument that is not passed. A handler is
\* a new object of each call: it carries the number of the call that made it.
\* The log file of the model can be opened.
ConfigureLogging(lg, n, c) ==
    LET level == IF IsNone(c.level) THEN WARNING ELSE Val(c.level)
        formatter == IF IsNone(c.log_format) THEN S_message ELSE Val(c.log_format)
        console_handler ==
            [class |-> "StreamHandler", formatter |-> formatter,
             file |-> None, call |-> n]
        file_handler ==
            [class |-> "RotatingFileHandler", formatter |-> S_detailed,
             file |-> c.log_file, call |-> n]
    IN  [name |-> lg.name,
         level |-> level,
         handlers |-> RemoveHandlers(lg.handlers) \o <<console_handler>>
                        \o (IF ~IsNone(c.log_file) /\ Val(c.log_file) # <<>>
                            THEN <<file_handler>> ELSE <<>>)]

----------------------------------------------------------------------------
(* The environment: inputs and responses *)

\* Flight-summary records: every field is optional and holds a str; a field
\* without a value is absent or empty. R3 has an empty datetime_takeoff and
\* a "/" in its origin, R4 none of the fields smart_export_flight reads.

R1 == [fr24_id |-> ID36, orig_icao |-> KEWR, dest_icao |-> KDEN,
       datetime_takeoff |-> T1000]
R2 == [fr24_id |-> ID37, orig_icao |-> KEWR, dest_icao |-> KDEN,
       dest_icao_actual |-> KORD, datetime_takeoff |-> T1400,
       first_seen |-> T1350]
R3 == [id |-> ID38, origin |-> K_EWR, destination |-> KDEN,
       datetime_takeoff |-> <<>>, first_seen |-> T0900]
R4 == [flight |-> <<"U", "A", "2", "1", "5", "1">>]
Records == {R1, R2, R3, R4}

CandidateLists == UNION {[1..n -> Records] : n \in 0..MaxCands}
Summaries ==
    {[data |-> d] : d \in CandidateLists} \cup {[message |-> <<"o", "k">>]}

FlightNumbers == {FN_UA_2151, FN_UA_slash}
Dates == {D_day, D_iso, D_bad}
OutputDirs == {None, Some(OutArg)}
AutoSelects ==
    {AS_None, AS_Str("latest"), AS_Str("earliest"), AS_Str("1"), AS_Str("first")}
        \cup {AS_Int(i) : i \in (-1)..MaxCands}
SummaryModes == {"full", "light"}

\* track points: a field holds None or a value; P1 has a source that the
\* CSV writer must quote
P1 == [timestamp |-> Some(T1000), lat |-> Some(40), lon |-> Some(-74),
       alt |-> Some(35000), gspeed |-> Some(450),
       source |-> Some(<<"A", ",", "B">>)]
P2 == [timestamp |-> Some(T0900), lat |-> Some(41), lon |-> Some(-75)]

\* tracks bodies of the smart export
SmartTrackBodies ==
    {JsonList(<<[tracks |-> <<P1, P2>>]>>), JsonList(<<>>),
     JsonDict([tracks |-> <<P1>>]), JsonOther}
SmartTrackFailures ==
    {o \in HttpOutcomes : o.status \in {0, 404, 500}}
SmartFaults == {NoFault, [chart |-> "speed", step |-> "save"]}

----------------------------------------------------------------------------
(* smart_export_flight *)

Init ==
    /\ pc = "start"
    /\ entry = "smart"
    /\ call = None
    /\ flight_number \in FlightNumbers
    /\ date \in Dates
    /\ output_dir_arg \in OutputDirs
    /\ output_dir = None
    /\ auto_select \in AutoSelects
    /\ summary_mode \in SummaryModes
    /\ requests = <<>>
    /\ summary = None
    /\ data = <<>>
    /\ selected = None
    /\ flight_id = <<>>
    /\ tracks_json = None
    /\ tracks = <<>>
    /\ sorted_tracks = <<>>
    /\ dirs = {}
    /\ files = {}
    /\ contents = <<>>
    /\ fault = NoFault
    /\ http = None
    /\ first_run = None
    /\ export_ret = Pending
    /\ result = NoResult
    /\ logger = NoLogger
    /\ log_calls = <<>>
    /\ args = None
    /\ env = None
    /\ exit_status = None

SummaryRequest ==
    IF entry = "smart"
    THEN SummaryParams(flight_number, DateFrom(date), DateTo(date))
    ELSE SummaryParams(call.flights, call.flight_datetime_from,
                       call.flight_datetime_to)

SummaryCall(raised) ==
    [endpoint |-> SummaryEndpoint(summary_mode), params |-> SummaryRequest.params,
     raised |-> raised]

\* the summary method raises FR24ValidationError before any request
SummaryRejected ==
    /\ pc = "start"
    /\ SummaryRequest.exc # ""
    /\ result' = ResultRaise(SummaryRequest.exc)
    /\ pc' = "done"
    /\ UNCHANGED <<logger, log_calls, args, env, exit_status>>
    /\ UNCHANGED <<entry, call, flight_number, date, output_dir_arg, output_dir,
                   auto_select, summary_mode, requests, summary, data, selected,
                   flight_id, tracks_json, tracks, sorted_tracks, dirs, files,
                   contents, fault, http, first_run, export_ret>>

\* the summary request fails in _make_request
SummaryFails ==
    /\ pc = "start"
    /\ SummaryRequest.exc = ""
    /\ \E o \in HttpOutcomes :
          /\ MakeRequest(o) # ""
          /\ result' = ResultRaise(MakeRequest(o))
          /\ requests' = Append(requests, SummaryCall(MakeRequest(o)))
          /\ http' = Some(o)
    /\ pc' = "done"
    /\ UNCHANGED <<logger, log_calls, args, env, exit_status>>
    /\ UNCHANGED <<entry, call, flight_number, date, output_dir_arg, output_dir,
                   auto_select, summary_mode, summary, data, selected, flight_id,
                   tracks_json, tracks, sorted_tracks, dirs, files, contents,
                   fault, first_run, export_ret>>

\* the summary arrives: lines 824-853, up to the call of export_flight_data
SummaryResponds ==
    /\ pc = "start"
    /\ SummaryRequest.exc = ""
    /\ \E o \in HttpOutcomes, s \in Summaries :
          LET d == SummaryData(s)
              choice == SelectCandidate(d, auto_select)
              sel == d[choice.index]
          IN  /\ MakeRequest(o) = ""
              /\ http' = Some(o)
              /\ summary' = Some(s)
              /\ data' = d
              /\ IF d = <<>> THEN
                    /\ result' = ResultReturn(NoFlightsResult(flight_number, date))
                    /\ pc' = "done"
                    /\ UNCHANGED <<selected, flight_id, output_dir>>
                 ELSE IF choice.kind = "invalid" THEN
                    /\ result' = ResultReturn(InvalidResult(d))
                    /\ pc' = "done"
                    /\ UNCHANGED <<selected, flight_id, output_dir>>
                 ELSE IF choice.kind = "options" THEN
                    /\ result' = ResultReturn(OptionsResult(d))
                    /\ pc' = "done"
                    /\ UNCHANGED <<selected, flight_id, output_dir>>
                 ELSE
                    /\ selected' = Some(sel)
                    /\ flight_id' = SelFlightId(sel)
                    /\ output_dir' =
                          IF IsNone(output_dir_arg)
                          THEN Some(SmartOutputDir(flight_number, date, sel))
                          ELSE output_dir_arg
                    /\ pc' = "export"
                    /\ UNCHANGED result
    /\ requests' = Append(requests, SummaryCall(""))
    /\ UNCHANGED <<logger, log_calls, args, env, exit_status>>
    /\ UNCHANGED <<entry, call, flight_number, date, output_dir_arg, auto_select,
                   summary_mode, tracks_json, tracks, sorted_tracks, dirs, files,
                   contents, fault, first_run, export_ret>>

----------------------------------------------------------------------------
(* export_flight_data *)

TracksCall(raised) ==
    [endpoint |-> "flight-tracks", params |-> [flight_id |-> flight_id],
     raised |-> raised]

\* get_flight_tracks raises
ExportFails(failures) ==
    /\ pc = "export"
    /\ \E o \in failures :
          /\ MakeRequest(o) # ""
          /\ export_ret' = Raised(MakeRequest(o))
          /\ result' = IF entry = "smart" THEN ResultRaise(MakeRequest(o))
                       ELSE result
          /\ requests' = Append(requests, TracksCall(MakeRequest(o)))
          /\ http' = Some(o)
    /\ pc' = "done"
    /\ UNCHANGED <<logger, log_calls, args, env, exit_status>>
    /\ UNCHANGED <<entry, call, flight_number, date, output_dir_arg, output_dir,
                   auto_select, summary_mode, summary, data, selected, flight_id,
                   tracks_json, tracks, sorted_tracks, dirs, files, contents,
                   fault, first_run>>

\* the tracks arrive: lines 526-624, and the return of smart_export_flight
ExportResponds(bodies, faults) ==
    /\ pc = "export"
    /\ \E o \in HttpOutcomes, body \in bodies, f \in faults :
          /\ MakeRequest(o) = ""
          /\ http' = Some(o)
          /\ tracks_json' = Some(body)
          /\ \E ex \in {ExtractTracks(body)}, dir \in {ExportDir(output_dir, flight_id)} :
                IF ~ex.ok \/ NoTracks(ex.tracks) \/ SortRaises(ex.tracks) # ""
                THEN \* lines 536, 540: nothing is written; or sorted() raises
                    /\ tracks' = ex.tracks
                    /\ export_ret' =
                          IF ~ex.ok THEN Raised("FR24ValidationError")
                          ELSE IF NoTracks(ex.tracks) THEN Returned(None)
                          ELSE Raised(SortRaises(ex.tracks))
                    /\ fault' = NoFault
                    /\ UNCHANGED <<sorted_tracks, dirs, files, contents>>
                ELSE \* lines 543-624
                    \E sorted \in {SortedTracks(ex.tracks)} :
                    \E new \in {DataContents(sorted, flight_id)},
                       charts \in {ChartFiles(sorted, f)} :
                        /\ tracks' = ex.tracks
                        /\ sorted_tracks' = sorted
                        /\ fault' = f
                        /\ dirs' = dirs \cup {dir}
                        /\ files' = files \cup {[dir |-> dir, name |-> n] :
                                                    n \in DataFiles \cup charts}
                        /\ contents' =
                              [x \in files' |->
                                  IF x.dir = dir /\ x.name \in DataFiles \cup charts
                                  THEN WriteFile(IF x \in files THEN contents[x]
                                                 ELSE <<>>,
                                                 IF x.name \in DataFiles
                                                 THEN new[x.name]
                                                 ELSE ChartImage(sorted, x.name))
                                  ELSE contents[x]]
                        /\ export_ret' = IF ChartsRaise(sorted, f)
                                         THEN Raised("Exception")
                                         ELSE Returned(Some(dir))
    /\ result' = IF entry = "smart"
                 THEN SmartOutcome(export_ret', Val(selected), data)
                 ELSE result
    /\ requests' = Append(requests, TracksCall(""))
    /\ pc' = "done"
    /\ UNCHANGED <<logger, log_calls, args, env, exit_status>>
    /\ UNCHANGED <<entry, call, flight_number, date, output_dir_arg, output_dir,
                   auto_select, summary_mode, summary, data, selected, flight_id,
                   first_run>>

\* export_flight_data is called a second time, with the same flight id and
\* the same output_dir, after a first call that got an answer
ExportAgain ==
    /\ pc = "done"
    /\ entry = "export"
    /\ IsNone(first_run)
    /\ ~IsNone(tracks_json)
    /\ first_run' = Some([tracks_json |-> Val(tracks_json),
                          sorted_tracks |-> sorted_tracks,
                          dirs |-> dirs,
                          contents |-> contents,
                          export_ret |-> export_ret])
    /\ tracks_json' = None
    /\ tracks' = <<>>
    /\ sorted_tracks' = <<>>
    /\ export_ret' = Pending
    /\ pc' = "export"
    /\ UNCHANGED <<logger, log_calls, args, env, exit_status>>
    /\ UNCHANGED <<entry, call, flight_number, date, output_dir_arg, output_dir,
                   auto_select, summary_mode, requests, summary, data, selected,
                   flight_id, dirs, files, contents, fault, http, result>>

----------------------------------------------------------------------------
(* Specifications *)

Next ==
    \/ SummaryRejected
    \/ SummaryFails
    \/ SummaryResponds
    \/ ExportFails(SmartTrackFailures)
    \/ ExportResponds(SmartTrackBodies, SmartFaults)

Spec == Init /\ [][Next]_vars

\* export_flight_data called directly (the export-flight command)
\* P3 has no timestamp and a null lat, P4 a null timestamp, P5 the timestamp
\* of P1, a null alt and a speed out of range, P6 an empty timestamp, no lon
P3 == [lat |-> None, lon |-> Some(-75)]
P4 == [timestamp |-> None, lat |-> Some(42), lon |-> Some(-76)]
P5 == [timestamp |-> Some(T1000), lat |-> Some(43), lon |-> Some(-77),
       alt |-> None, gspeed |-> Some(1200)]
P6 == [timestamp |-> Some(<<>>), lat |-> Some(44)]
Points == {P1, P2, P3, P4, P5, P6}
PointLists == UNION {[1..n -> Points] : n \in 0..MaxTracks}

ExportTrackBodies ==
    {JsonList(<<[tracks |-> t]>>) : t \in PointLists}
        \cup {JsonList(t) : t \in PointLists}
        \cup {JsonDict([tracks |-> t]) : t \in PointLists}
        \cup {JsonList(<<[tracks |-> <<P1>>], [tracks |-> <<P2>>]>>),
              JsonList(<<[tracks |-> <<P1>>], P2>>),
              JsonList(<<[scalar |-> TRUE]>>),
              JsonList(<<[tracks |-> <<P2, P1>>, message |-> <<"o", "k">>]>>),
              JsonDict([message |-> <<"o", "k">>]),
              JsonOther}

InitExport ==
    /\ pc = "export"
    /\ entry = "export"
    /\ call = None
    /\ flight_number = <<>>
    /\ date = <<>>
    /\ output_dir_arg \in OutputDirs
    /\ output_dir = output_dir_arg
    /\ auto_select = AS_None
    /\ summary_mode = "full"
    /\ requests = <<>>
    /\ summary = None
    /\ data = <<>>
    /\ selected = None
    /\ flight_id \in {ID36, ID37}
    /\ tracks_json = None
    /\ tracks = <<>>
    /\ sorted_tracks = <<>>
    /\ dirs = {}
    /\ files = {}
    /\ contents = <<>>
    /\ fault = NoFault
    /\ http = None
    /\ first_run = None
    /\ export_ret = Pending
    /\ result = NoResult
    /\ logger = NoLogger
    /\ log_calls = <<>>
    /\ args = None
    /\ env = None
    /\ exit_status = None

\* the answers to a second call: the same body, the list the first call
\* sorted, or no point at all; the fault of the first call is still there or
\* is gone
ExportBodies ==
    IF IsNone(first_run) THEN ExportTrackBodies
    ELSE {Val(first_run).tracks_json, JsonList(Val(first_run).sorted_tracks),
          JsonList(<<>>)}
ExportFaults == IF IsNone(first_run) THEN Faults ELSE {fault, NoFault}

NextExport ==
    \/ ExportFails(HttpOutcomes)
    \/ ExportResponds(ExportBodies, ExportFaults)
    \/ ExportAgain

ExportSpec == InitExport /\ [][NextExport]_vars

\* get_flight_summary_light / get_flight_summary_full called directly
FN_UA2151 == <<"U", "A", "2", "1", "5", "1">>
FN_invalid == <<"i", "n", "v", "a", "l", "i", "d", "!", "@", "#">>
SummaryCalls ==
    [flights : {FN_UA2151, ID36, FN_invalid, <<>>},
     flight_datetime_from : {D_day, D_iso, D_bad, D_newline, <<>>},
     flight_datetime_to : {D_day, D_iso, D_bad, D_newline}]

InitSummary ==
    /\ pc = "start"
    /\ entry = "summary"
    /\ call \in SummaryCalls
    /\ flight_number = <<>>
    /\ date = <<>>
    /\ output_dir_arg = None
    /\ output_dir = None
    /\ auto_select = AS_None
    /\ summary_mode \in SummaryModes
    /\ requests = <<>>
    /\ summary = None
    /\ data = <<>>
    /\ selected = None
    /\ flight_id = <<>>
    /\ tracks_json = None
    /\ tracks = <<>>
    /\ sorted_tracks = <<>>
    /\ dirs = {}
    /\ files = {}
    /\ contents = <<>>
    /\ fault = NoFault
    /\ http = None
    /\ first_run = None
    /\ export_ret = Pending
    /\ result = NoResult
    /\ logger = NoLogger
    /\ log_calls = <<>>
    /\ args = None
    /\ env = None
    /\ exit_status = None

\* the summary arrives: return response.json() (lines 302, 349)
SummaryReturns ==
    /\ pc = "start"
    /\ entry = "summary"
    /\ SummaryRequest.exc = ""
    /\ \E o \in HttpOutcomes, s \in Summaries :
          /\ MakeRequest(o) = ""
          /\ http' = Some(o)
          /\ summary' = Some(s)
          /\ result' = ResultReturn(s)
    /\ requests' = Append(requests, SummaryCall(""))
    /\ pc' = "done"
    /\ UNCHANGED <<logger, log_calls, args, env, exit_status>>
    /\ UNCHANGED <<entry, call, flight_number, date, output_dir_arg, output_dir,
                   auto_select, summary_mode, data, selected, flight_id,
                   tracks_json, tracks, sorted_tracks, dirs, files, contents,
                   fault, first_run, export_ret>>

NextSummary ==
    \/ SummaryRejected
    \/ SummaryFails
    \/ SummaryReturns

SummarySpec == InitSummary /\ [][NextSummary]_vars

\* get_flight_ids_by_registration called directly; an argument that is not
\* passed is None. offset and limit go into the request, max_pages is read
\* nowhere in the method.
N12345 == <<"N", "1", "2", "3", "4", "5">>
FlightIdsCalls ==
    [registration : {N12345},
     date_from : {D_day, D_iso, D_bad, D_newline},
     date_to : {D_day, D_iso, D_bad, <<>>},
     offset : {0, 2},
     limit : {1, 2},
     max_pages : {None, Some(0), Some(1), Some(2)}]

\* the pages of flight ids the server answers with
IdPages == {[data |-> ids] : ids \in {<<>>, <<ID36>>, <<ID36, ID37>>}}

\* lines 786-793: [exc, params]
FlightIdsParams(c) ==
    LET f == ValidateAndFormatDate(c.date_from)
        t == ValidateAndFormatDate(c.date_to)
    IN  IF ~f.ok \/ ~t.ok THEN [exc |-> "FR24ValidationError", params |-> <<>>]
        ELSE [exc |-> "",
              params |-> [registration |-> c.registration, date_from |-> f.val,
                          date_to |-> t.val, offset |-> c.offset,
                          limit |-> c.limit]]

InitFlightIds ==
    /\ pc = "start"
    /\ entry = "flight_ids"
    /\ call \in FlightIdsCalls
    /\ flight_number = <<>>
    /\ date = <<>>
    /\ output_dir_arg = None
    /\ output_dir = None
    /\ auto_select = AS_None
    /\ summary_mode = "full"
    /\ requests = <<>>
    /\ summary = None
    /\ data = <<>>
    /\ selected = None
    /\ flight_id = <<>>
    /\ tracks_json = None
    /\ tracks = <<>>
    /\ sorted_tracks = <<>>
    /\ dirs = {}
    /\ files = {}
    /\ contents = <<>>
    /\ fault = NoFault
    /\ http = None
    /\ first_run = None
    /\ export_ret = Pending
    /\ result = NoResult
    /\ logger = NoLogger
    /\ log_calls = <<>>
    /\ args = None
    /\ env = None
    /\ exit_status = None

\* get_flight_ids_by_registration, lines 784-795: the dates are validated,
\* one request is made and its decoded body is returned
GetFlightIdsByRegistration ==
    /\ pc = "start"
    /\ entry = "flight_ids"
    /\ \E v \in {FlightIdsParams(call)} :
          IF v.exc # ""
          THEN /\ result' = ResultRaise(v.exc)
               /\ UNCHANGED <<requests, http>>
          ELSE \E o \in HttpOutcomes, body \in IdPages :
                  /\ http' = Some(o)
                  /\ requests' = Append(requests,
                                        [endpoint |-> "flight-ids",
                                         params |-> v.params,
                                         raised |-> MakeRequest(o)])
                  /\ result' = IF MakeRequest(o) # ""
                               THEN ResultRaise(MakeRequest(o))
                               ELSE ResultReturn(body)
    /\ pc' = "done"
    /\ UNCHANGED <<logger, log_calls, args, env, exit_status>>
    /\ UNCHANGED <<entry, call, flight_number, date, output_dir_arg, output_dir,
                   auto_select, summary_mode, summary, data, selected, flight_id,
                   tracks_json, tracks, sorted_tracks, dirs, files, contents,
                   fault, first_run, export_ret>>

NextFlightIds ==
    \/ GetFlightIdsByRegistration

FlightIdsSpec == InitFlightIds /\ [][NextFlightIds]_vars

\* configure_logging called by a program, any number of times
LoggingCalls ==
    [level : {None, Some(DEBUG), Some(INFO)},
     log_file : {None, Some(LogA)},
     log_format : {None, Some(S_custom)}]

InitLogging ==
    /\ pc = "logging"
    /\ entry = "logging"
    /\ call = None
    /\ flight_number = <<>>
    /\ date = <<>>
    /\ output_dir_arg = None
    /\ output_dir = None
    /\ auto_select = AS_None
    /\ summary_mode = "full"
    /\ requests = <<>>
    /\ summary = None
    /\ data = <<>>
    /\ selected = None
    /\ flight_id = <<>>
    /\ tracks_json = None
    /\ tracks = <<>>
    /\ sorted_tracks = <<>>
    /\ dirs = {}
    /\ files = {}
    /\ contents = <<>>
    /\ fault = NoFault
    /\ http = None
    /\ first_run = None
    /\ export_ret = Pending
    /\ result = NoResult
    /\ logger = NoLogger
    /\ log_calls = <<>>
    /\ args = None
    /\ env = None
    /\ exit_status = None

\* one call of configure_logging: it returns the logger
ConfigureLoggingCall ==
    /\ pc = "logging"
    /\ Len(log_calls) < MaxLogCalls
    /\ \E c \in LoggingCalls :
          /\ logger' = ConfigureLogging(logger, Len(log_calls) + 1, c)
          /\ log_calls' = Append(log_calls, c)
    /\ result' = ResultReturn(logger')
    /\ UNCHANGED <<args, env, exit_status>>
    /\ UNCHANGED <<pc, entry, call, flight_number, date, output_dir_arg, output_dir,
                   auto_select, summary_mode, requests, summary, data, selected,
                   flight_id, tracks_json, tracks, sorted_tracks, dirs, files,
                   contents, fault, http, first_run, export_ret>>

NextLogging ==
    \/ ConfigureLoggingCall

LoggingSpec == InitLogging /\ [][NextLogging]_vars

\* the smart-export command of the command line (cli.py)

\* the parameters smart_export_flight declares (client.py:797-806) and the
\* keywords the command passes in its first call (cli.py:287-295)
SmartExportParameters ==
    {"flight_number", "date", "output_dir", "background", "orientation",
     "auto_select", "summary_mode"}
FirstCallKeywords ==
    {"flight_number", "date", "output_dir", "background", "orientation",
     "auto_select", "timezone"}

\* a call by keywords: Python raises TypeError for a keyword that the
\* function does not declare, before the body runs; "" when the call binds
CallRaises(keywords, parameters) ==
    IF keywords \subseteq parameters THEN "" ELSE "TypeError"

\* getattr(logging, args.log_level.upper())
LevelOf(name) ==
    IF name = "DEBUG" THEN DEBUG ELSE IF name = "INFO" THEN INFO ELSE WARNING

\* parsed command lines: argparse leaves --auto-select a str; a token is given
CliArgs ==
    [flight : {FN_UA2151},
     date : {D_day},
     output_dir : OutputDirs,
     auto_select : {None, Some("latest"), Some("earliest"), Some("1"), Some("5")},
     timezone : {None, Some("America/New_York")},
     log_level : {"DEBUG", "INFO", "WARNING"},
     log_file : {None}]

\* what the server holds for the flight and the date, the track points of
\* each candidate, and the lines the user types when prompted; the command
\* ends before it asks for any of them
CliEnvs ==
    [data : {<<>>, <<R1>>, <<R1, R2>>, <<R1, R2, R3>>},
     tracks : {<<>>, <<P1, P2>>},
     stdin : {<<>>, <<"1">>, <<"7", "0">>}]

InitCli ==
    /\ pc = "cli"
    /\ entry = "cli"
    /\ call = None
    /\ flight_number = <<>>
    /\ date = <<>>
    /\ output_dir_arg = None
    /\ output_dir = None
    /\ auto_select = AS_None
    /\ summary_mode = "full"
    /\ requests = <<>>
    /\ summary = None
    /\ data = <<>>
    /\ selected = None
    /\ flight_id = <<>>
    /\ tracks_json = None
    /\ tracks = <<>>
    /\ sorted_tracks = <<>>
    /\ dirs = {}
    /\ files = {}
    /\ contents = <<>>
    /\ fault = NoFault
    /\ http = None
    /\ first_run = None
    /\ export_ret = Pending
    /\ result = NoResult
    /\ logger = NoLogger
    /\ log_calls = <<>>
    /\ args \in {Some(a) : a \in CliArgs}
    /\ env \in {Some(e) : e \in CliEnvs}
    /\ exit_status = None

\* smart_export_flight_command (cli.py:281-387): setup_logging configures the
\* logger, then the first call of api.smart_export_flight passes timezone=,
\* which the method does not declare: the call raises TypeError before any
\* request, the handler of lines 384-387 prints the error and exits with 1.
\* Lines 296-383 (the prompt, the second call, toplines.json) are never
\* reached.
SmartExportFlightCommand ==
    /\ pc = "cli"
    /\ \E c \in {[level |-> Some(LevelOf(Val(args).log_level)),
                  log_file |-> Val(args).log_file, log_format |-> None]} :
          /\ logger' = ConfigureLogging(logger, Len(log_calls) + 1, c)
          /\ log_calls' = Append(log_calls, c)
    /\ CallRaises(FirstCallKeywords, SmartExportParameters) # ""
    /\ result' = ResultRaise(CallRaises(FirstCallKeywords, SmartExportParameters))
    /\ exit_status' = Some(1)
    /\ pc' = "done"
    /\ UNCHANGED <<args, env>>
    /\ UNCHANGED <<entry, call, flight_number, date, output_dir_arg, output_dir,
                   auto_select, summary_mode, requests, summary, data, selected,
                   flight_id, tracks_json, tracks, sorted_tracks, dirs, files,
                   contents, fault, http, first_run, export_ret>>

NextCli ==
    \/ SmartExportFlightCommand

CliSpec == InitCli /\ [][NextCli]_vars

----------------------------------------------------------------------------
(* Properties *)

\* the summary request was answered with a decoded body
SummaryArrived == ~IsNone(summary)

\* nothing was exported: no tracks request, no directory, no file
NothingExported ==
    /\ \A i \in 1..Len(requests) : requests[i].endpoint # "flight-tracks"
    /\ export_ret = Pending
    /\ dirs = {}
    /\ files = {}

\* C1: with N > 1 candidates and auto_select absent, smart_export_flight
\* returns the full candidate list as options (length N, response order),
\* selected null and output_dir null, and exports nothing.
C1_OptionsWhenAmbiguous ==
    (SummaryArrived /\ Len(SummaryData(Val(summary))) > 1 /\ auto_select.type = "none")
        => /\ pc = "done"
           /\ result.kind = "return"
           /\ result.value.options = Val(summary).data
           /\ Len(result.value.options) = Len(Val(summary).data)
           /\ result.value.selected = None
           /\ result.value.output_dir = None
           /\ NothingExported

C1_Witness ==
    /\ SummaryArrived
    /\ auto_select.type = "none"
    /\ Val(summary) = [data |-> <<R2, R1, R3>>]
    /\ result.kind = "return"
    /\ result.value.options = <<R2, R1, R3>>

\* C2: with zero candidates (data missing or empty) the result carries the
\* error "No flights found for {flight_number} on {date}", selected null,
\* output_dir null and empty options, whatever auto_select is.
C2_NoFlightsFound ==
    (SummaryArrived /\ ("data" \notin DOMAIN Val(summary) \/ Val(summary).data = <<>>))
        => /\ pc = "done"
           /\ result.kind = "return"
           /\ DOMAIN result.value = {"output_dir", "selected", "options", "error"}
           /\ result.value.error = S_NoFlightsFoundFor \o flight_number \o S_on \o date
           /\ result.value.selected = None
           /\ result.value.output_dir = None
           /\ result.value.options = <<>>

C2_Witness ==
    /\ SummaryArrived
    /\ "data" \notin DOMAIN Val(summary)
    /\ auto_select = AS_Str("latest")
    /\ flight_number = FN_UA_2151
    /\ date = D_day
    /\ result.kind = "return"
    /\ result.value.error =
          <<"N", "o", " ", "f", "l", "i", "g", "h", "t", "s", " ", "f", "o",
            "u", "n", "d", " ", "f", "o", "r", " ", "U", "A", " ", "2", "1",
            "5", "1", " ", "o", "n", " ", "2", "0", "2", "5", "-", "0", "4",
            "-", "2", "2">>

\* C3: with exactly one candidate that candidate is selected for every
\* auto_select, and the 'Invalid auto_select value' error is never returned.
C3_SingleCandidateSelected ==
    (SummaryArrived /\ Len(SummaryData(Val(summary))) = 1)
        => /\ selected = Some(Val(summary).data[1])
           /\ result.kind = "return"
                => /\ result.value.selected = Some(Val(summary).data[1])
                   /\ "error" \notin DOMAIN result.value

C3_Witness ==
    /\ SummaryArrived
    /\ Val(summary) = [data |-> <<R3>>]
    /\ auto_select = AS_Int(2)
    /\ result.kind = "return"
    /\ result.value.selected = Some(R3)

\* the comparison key as C4 words it: datetime_takeoff, else first_seen
C4_Key(x) ==
    IF "datetime_takeoff" \in DOMAIN x /\ x.datetime_takeoff # <<>>
    THEN x.datetime_takeoff
    ELSE IF "first_seen" \in DOMAIN x THEN x.first_seen
    ELSE <<>>

\* C4: with N > 1 candidates 'latest' selects a candidate whose key is the
\* maximum under string comparison and 'earliest' one whose key is the
\* minimum; of three candidates departing 10:00, 14:00, 09:00 'latest'
\* selects the second.
C4_LatestEarliest ==
    (SummaryArrived /\ Len(SummaryData(Val(summary))) > 1 /\ auto_select.type = "str")
        => LET d == Val(summary).data IN
           /\ auto_select.str = "latest"
                => /\ ~IsNone(selected)
                   /\ \E i \in 1..Len(d) : d[i] = Val(selected)
                   /\ \A j \in 1..Len(d) : ~StrLt(C4_Key(Val(selected)), C4_Key(d[j]))
           /\ auto_select.str = "earliest"
                => /\ ~IsNone(selected)
                   /\ \E i \in 1..Len(d) : d[i] = Val(selected)
                   /\ \A j \in 1..Len(d) : ~StrLt(C4_Key(d[j]), C4_Key(Val(selected)))
           /\ (auto_select.str = "latest" /\ d = <<R1, R2, R3>>)
                => selected = Some(d[2])

C4_Witness ==
    /\ SummaryArrived
    /\ Val(summary) = [data |-> <<R1, R2, R3>>]
    /\ auto_select = AS_Str("latest")
    /\ selected = Some(R2)
    /\ result.kind = "return"
    /\ result.value.selected = Some(R2)

\* C5: with N > 1 candidates and auto_select an integer i, 0 <= i < N,
\* exactly candidates[i] is selected, i = 0 included.
C5_IndexSelects ==
    (/\ SummaryArrived
     /\ Len(SummaryData(Val(summary))) > 1
     /\ auto_select.type = "int"
     /\ 0 <= auto_select.int
     /\ auto_select.int < Len(SummaryData(Val(summary))))
        => /\ selected = Some(Val(summary).data[auto_select.int + 1])
           /\ result.kind = "return"
                => result.value.selected = Some(Val(summary).data[auto_select.int + 1])

C5_Witness ==
    /\ SummaryArrived
    /\ Val(summary) = [data |-> <<R2, R1>>]
    /\ auto_select = AS_Int(0)
    /\ result.kind = "return"
    /\ result.value.selected = Some(R2)

\* auto_select is present and is neither 'latest', 'earliest' nor an index
C6_BadAutoSelect(n) ==
    \/ auto_select.type = "str" /\ auto_select.str \notin {"latest", "earliest"}
    \/ auto_select.type = "int" /\ (auto_select.int < 0 \/ auto_select.int >= n)

\* C6: with N > 1 candidates and such an auto_select the result carries
\* the error 'Invalid auto_select value', all candidates as options,
\* selected null and output_dir null, and nothing is exported.
C6_InvalidAutoSelect ==
    (/\ SummaryArrived
     /\ Len(SummaryData(Val(summary))) > 1
     /\ C6_BadAutoSelect(Len(Val(summary).data)))
        => /\ pc = "done"
           /\ result.kind = "return"
           /\ result.value.error = S_InvalidAutoSelect
           /\ result.value.options = Val(summary).data
           /\ result.value.selected = None
           /\ result.value.output_dir = None
           /\ NothingExported

C6_Witness ==
    /\ SummaryArrived
    /\ Val(summary) = [data |-> <<R1, R2>>]
    /\ auto_select = AS_Int(-1)
    /\ result.kind = "return"
    /\ result.value.error = S_InvalidAutoSelect
    /\ result.value.options = <<R1, R2>>

\* C7 as worded: every returned value has all four fields
C7_Original ==
    result.kind = "return"
        => DOMAIN result.value = {"output_dir", "selected", "options", "error"}

\* C7: every returned value has the fields output_dir, selected and options;
\* the error field is present, a non-empty string, exactly on the
\* no-candidates and invalid-auto_select paths, and absent on the others.
C7_ResultShape ==
    result.kind = "return"
        => /\ {"output_dir", "selected", "options"} \subseteq DOMAIN result.value
           /\ DOMAIN result.value \subseteq {"output_dir", "selected", "options", "error"}
           /\ "error" \in DOMAIN result.value
                <=> \/ SummaryData(Val(summary)) = <<>>
                    \/ /\ Len(SummaryData(Val(summary))) > 1
                       /\ C6_BadAutoSelect(Len(SummaryData(Val(summary))))
           /\ "error" \in DOMAIN result.value => result.value.error # <<>>

C7_Witness ==
    /\ result.kind = "return"
    /\ DOMAIN result.value = {"output_dir", "selected", "options"}
    /\ result.value.selected = Some(R1)
    /\ ~IsNone(result.value.output_dir)

\* C8 as worded: no failure escapes smart_export_flight as an exception
C8_Original == result.kind # "raise"

\* C8: only the two disambiguation failures (no candidates, invalid
\* auto_select) are reported through the error field; an invalid date, a
\* typed HTTP or transport error of the summary or tracks request and an
\* unexpected shape of the tracks body escape the call as exceptions.
C8_ErrorsPropagate ==
    pc = "done"
        => /\ ~ValidateAndFormatDate(DateFrom(date)).ok
                => result = ResultRaise("FR24ValidationError") /\ requests = <<>>
           /\ \A i \in 1..Len(requests) :
                requests[i].raised # "" => result = ResultRaise(requests[i].raised)
           /\ (~IsNone(tracks_json) /\ Val(tracks_json).type = "other")
                => result = ResultRaise("FR24ValidationError")
           /\ (result.kind = "return" /\ "error" \in DOMAIN result.value)
                => /\ SummaryArrived
                   /\ \A i \in 1..Len(requests) : requests[i].raised = ""
                   /\ \/ SummaryData(Val(summary)) = <<>>
                      \/ C6_BadAutoSelect(Len(SummaryData(Val(summary))))

C8_Witness ==
    /\ pc = "done"
    /\ Len(requests) = 2
    /\ requests[2].endpoint = "flight-tracks"
    /\ requests[2].raised = "FR24NotFoundError"
    /\ ~IsNone(selected)
    /\ result = ResultRaise("FR24NotFoundError")

\* s with the characters of cs removed
C9_Remove(s, cs) == SelectSeq(s, LAMBDA c : c \notin cs)
\* s with every "/" turned into "_"
C9_Underscore(s) == [i \in 1..Len(s) |-> IF s[i] = "/" THEN "_" ELSE s[i]]
C9_Date(sel) ==
    LET ts == IF Get(sel, "datetime_takeoff", <<>>) # <<>> THEN sel.datetime_takeoff
              ELSE IF Get(sel, "first_seen", <<>>) # <<>> THEN sel.first_seen
              ELSE date
    IN  SubSeq(ts, 1, 10)
C9_Selected ==
    pc # "start" /\ ~IsNone(selected) /\ IsNone(output_dir_arg)

\* C9 as worded: path separators are removed from the flight number and
\* from the origin and destination codes
C9_Original ==
    C9_Selected
        => output_dir =
             Some(S_data_slash \o C9_Remove(flight_number, {"/", " "}) \o <<"_">>
                  \o C9_Date(Val(selected)) \o <<"_">>
                  \o C9_Remove(SelOrig(Val(selected)), {"/"}) \o <<"-">>
                  \o C9_Remove(SelDest(Val(selected)), {"/"}) \o <<"_">>
                  \o SelFlightId(Val(selected)))

\* C9: with a candidate selected and no output_dir supplied the directory is
\* data/<F>_<D>_<O>-<X>_<ID>: F the flight number with every "/" replaced
\* by "_" and spaces removed, D the first 10 characters of datetime_takeoff,
\* else first_seen, else the requested date, O and X the origin and
\* destination codes with every "/" replaced by "_", ID the flight id;
\* 'UA 2151', 2025-04-22, KEWR, KDEN, 3a01b036 gives
\* data/UA2151_2025-04-22_KEWR-KDEN_3a01b036.
C9_OutputDirNaming ==
    C9_Selected
        => /\ output_dir =
                Some(S_data_slash
                     \o C9_Underscore(C9_Remove(flight_number, {" "})) \o <<"_">>
                     \o C9_Date(Val(selected)) \o <<"_">>
                     \o C9_Underscore(SelOrig(Val(selected))) \o <<"-">>
                     \o C9_Underscore(SelDest(Val(selected))) \o <<"_">>
                     \o SelFlightId(Val(selected)))
           /\ (flight_number = FN_UA_2151 /\ selected = Some(R1))
                => output_dir =
                     Some(<<"d", "a", "t", "a", "/", "U", "A", "2", "1", "5", "1",
                            "_", "2", "0", "2", "5", "-", "0", "4", "-", "2", "2",
                            "_", "K", "E", "W", "R", "-", "K", "D", "E", "N", "_",
                            "3", "a", "0", "1", "b", "0", "3", "6">>)
           /\ pc = "done" /\ export_ret.kind = "return" /\ ~IsNone(export_ret.dir)
                => /\ export_ret.dir = output_dir
                   /\ result.value.output_dir = output_dir
                   /\ dirs = {Val(output_dir)}

C9_Witness ==
    /\ C9_Selected
    /\ flight_number = FN_UA_2151
    /\ date = D_day
    /\ selected = Some(R1)
    /\ pc = "done"
    /\ result.kind = "return"
    /\ result.value.output_dir =
          Some(S_data_slash \o <<"U", "A", "2", "1", "5", "1">> \o <<"_">> \o D_day
               \o <<"_">> \o KEWR \o <<"-">> \o KDEN \o <<"_">> \o ID36)

\* C10: the point list is taken from the tracks body by priority: (1) a
\* list of exactly one object with key tracks gives that object's tracks;
\* (2) any other list gives the list itself; (3) an object gives its
\* tracks, or the empty list without that key; (4) anything else raises
\* FR24ValidationError and nothing is written.
C10_ExtractPriority ==
    ~IsNone(tracks_json)
        => LET d == Val(tracks_json)
               one == /\ Len(d.items) = 1
                      /\ "scalar" \notin DOMAIN d.items[1]
                      /\ "tracks" \in DOMAIN d.items[1]
           IN  /\ (d.type = "list" /\ one) => tracks = d.items[1].tracks
               /\ (d.type = "list" /\ ~one) => tracks = d.items
               /\ (d.type = "dict" /\ "tracks" \in DOMAIN d.obj) => tracks = d.obj.tracks
               /\ (d.type = "dict" /\ "tracks" \notin DOMAIN d.obj) => tracks = <<>>
               /\ d.type \in {"list", "dict"} => export_ret # Raised("FR24ValidationError")
               /\ d.type \notin {"list", "dict"}
                    => /\ export_ret = Raised("FR24ValidationError")
                       /\ dirs = {}
                       /\ files = {}

C10_Witness ==
    /\ tracks_json = Some(JsonList(<<[tracks |-> <<P2, P1>>, message |-> <<"o", "k">>]>>))
    /\ tracks = <<P2, P1>>
    /\ export_ret.kind = "return"
    /\ files # {}

----------------------------------------------------------------------------
(* Properties of export_flight_data *)

\* the latest call of export_flight_data got a body and has ended
ExportAnswered == pc = "done" /\ ~IsNone(tracks_json)

\* the latest call of export_flight_data wrote its artifacts
ExportWrote == ExportAnswered /\ sorted_tracks # <<>>

\* the file of that name in the directory of the export
ExportFile(n) == [dir |-> ExportDir(output_dir, flight_id), name |-> n]

\* the raw timestamp of a point as the claims read it: "" when missing
C11_Timestamp(x) ==
    IF "timestamp" \in DOMAIN x THEN Val(x.timestamp) ELSE <<>>

\* C11: for every non-empty extracted list of points (objects whose timestamp
\* is a string or missing) the export goes on to write its artifacts, and
\* the list they are written from is a permutation of the extracted points
\* in non-decreasing lexicographic order of the raw timestamp, a missing or
\* empty timestamp counting as "" and so coming first.
C11_SortedPermutation ==
    /\ (/\ ExportAnswered
        /\ tracks # <<>>
        /\ \A i \in 1..Len(tracks) :
              /\ IsDict(tracks[i])
              /\ ~IsNone(Get(tracks[i], "timestamp", Some(<<>>))))
          => ExportWrote
    /\ ExportWrote =>
          /\ Len(sorted_tracks) = Len(tracks)
          /\ \A i \in 1..Len(tracks) :
                Cardinality({j \in 1..Len(tracks) : tracks[j] = tracks[i]})
                    = Cardinality({j \in 1..Len(sorted_tracks) :
                                      sorted_tracks[j] = tracks[i]})
          /\ \A i, j \in 1..Len(sorted_tracks) :
                i < j => ~StrLt(C11_Timestamp(sorted_tracks[j]),
                                C11_Timestamp(sorted_tracks[i]))
          /\ \A n \in DataFiles :
                contents[ExportFile(n)] = DataContents(sorted_tracks, flight_id)[n]

\* a point without timestamp arrived last and was written first
C11_Witness ==
    /\ ExportWrote
    /\ tracks = <<P1, P3>>
    /\ sorted_tracks = <<P3, P1>>
    /\ ExportFile("data.csv") \in files

\* C12: normalization is idempotent. When the list a first call extracted
\* and sorted comes back as the raw tracks response of a second call, the
\* second call extracts and sorts it to the same list in the same order,
\* lists of length one included.
C12_NormalizeIdempotent ==
    (/\ ExportAnswered
     /\ ~IsNone(first_run)
     /\ Val(tracks_json) = JsonList(Val(first_run).sorted_tracks))
        => /\ tracks = Val(first_run).sorted_tracks
           /\ sorted_tracks = Val(first_run).sorted_tracks

\* the list of one point that a first call unwrapped came back bare
C12_Witness ==
    /\ ExportAnswered
    /\ ~IsNone(first_run)
    /\ Val(first_run).tracks_json = JsonList(<<[tracks |-> <<P1>>]>>)
    /\ Val(tracks_json) = JsonList(<<P1>>)
    /\ sorted_tracks = <<P1>>

\* C13: when the extracted point list is empty, export_flight_data is a
\* no-op: it returns (None) without raising, creates no directory and writes
\* no file, so the disk is as it was before the call.
C13_EmptyIsNoOp ==
    (/\ ExportAnswered
     /\ Val(tracks_json).type # "other"
     /\ tracks = <<>>)
        => /\ export_ret = Returned(None)
           /\ IF IsNone(first_run)
              THEN dirs = {} /\ files = {} /\ contents = <<>>
              ELSE /\ dirs = Val(first_run).dirs
                   /\ files = DOMAIN Val(first_run).contents
                   /\ contents = Val(first_run).contents

\* a second call was answered with an empty list: the files of the first
\* call are all there is
C13_Witness ==
    /\ ExportAnswered
    /\ ~IsNone(first_run)
    /\ Val(first_run).sorted_tracks = <<P2, P1>>
    /\ Val(tracks_json) = JsonList(<<>>)
    /\ tracks = <<>>
    /\ export_ret = Returned(None)
    /\ contents = Val(first_run).contents

\* data.csv of the latest call, read back with a CSV reader
C14_Rows == {CsvParse(contents[ExportFile("data.csv")], 1, <<>>, <<>>)}

\* C14: data.csv holds the header timestamp, lat, lon, alt, gspeed, vspeed,
\* track, squawk, callsign, source in that order, then exactly one row per
\* point of the sorted list, in its order, a field without a value being the
\* empty string; read back, the file gives the same field names and as many
\* rows as there were input points.
C14_CsvRows ==
    ExportWrote =>
        \A rows \in C14_Rows :
            /\ rows[1] =
                  << <<"t", "i", "m", "e", "s", "t", "a", "m", "p">>,
                     <<"l", "a", "t">>, <<"l", "o", "n">>, <<"a", "l", "t">>,
                     <<"g", "s", "p", "e", "e", "d">>,
                     <<"v", "s", "p", "e", "e", "d">>,
                     <<"t", "r", "a", "c", "k">>, <<"s", "q", "u", "a", "w", "k">>,
                     <<"c", "a", "l", "l", "s", "i", "g", "n">>,
                     <<"s", "o", "u", "r", "c", "e">> >>
            /\ Len(rows) = 1 + Len(tracks)
            /\ \A i \in 1..Len(sorted_tracks) :
                  /\ Len(rows[i + 1]) = Len(fieldnames)
                  /\ \A j \in 1..Len(fieldnames) :
                        rows[i + 1][j] =
                            IF IsNone(Get(sorted_tracks[i], fieldnames[j], None))
                            THEN <<>>
                            ELSE PyStr(fieldnames[j],
                                       sorted_tracks[i][fieldnames[j]])

\* two rows: P3 with a null lat and seven fields missing, and P1, whose
\* source the writer had to quote
C14_Witness ==
    /\ ExportWrote
    /\ sorted_tracks = <<P3, P1>>
    /\ \E rows \in C14_Rows :
          /\ Len(rows) = 3
          /\ rows[2][2] = <<>>
          /\ rows[3][10] = <<"A", ",", "B">>
          /\ Len(contents[ExportFile("data.csv")])
                > Len(Join(rows[1], <<",">>)) + Len(Join(rows[2], <<",">>))
                    + Len(Join(rows[3], <<",">>)) + 6

\* the point has a lon and a lat: the keys are there and hold a value
C15_Located(x) ==
    /\ "lon" \in DOMAIN x
    /\ "lat" \in DOMAIN x
    /\ x.lon # None
    /\ x.lat # None

\* C15: the LineString of line.geojson has exactly one [lon, lat] pair for
\* each point of the sorted list that has both a lon and a lat, in the
\* order of that list; a point that lacks either is left out, and no pair
\* holds a null.
C15_LineCoordinates ==
    ExportWrote =>
        \A line \in {contents[ExportFile("line.geojson")]} :
            /\ Len(line) = 1
            /\ line[1].type = "LineString"
            /\ Len(line[1].coordinates)
                  = Cardinality({i \in 1..Len(sorted_tracks) :
                                    C15_Located(sorted_tracks[i])})
            /\ \A i \in 1..Len(sorted_tracks) :
                  C15_Located(sorted_tracks[i]) =>
                      line[1].coordinates[
                          Cardinality({j \in 1..i : C15_Located(sorted_tracks[j])})]
                              = <<sorted_tracks[i].lon, sorted_tracks[i].lat>>
            /\ \A k \in 1..Len(line[1].coordinates) :
                  /\ line[1].coordinates[k][1] # None
                  /\ line[1].coordinates[k][2] # None

\* P3 has a null lat and is left out; P1 is the one pair
C15_Witness ==
    /\ ExportWrote
    /\ sorted_tracks = <<P3, P1>>
    /\ contents[ExportFile("line.geojson")][1].coordinates
          = << <<Some(-74), Some(40)>> >>

\* the triple of a point as the claim has it: the alt, and 0 when the
\* point has no altitude value
C16_Triple(x) ==
    StrOfInt(Val(x.lon)) \o <<",">> \o StrOfInt(Val(x.lat)) \o <<",">>
        \o (IF "alt" \in DOMAIN x /\ x.alt # None THEN StrOfInt(Val(x.alt))
            ELSE <<"0">>)

\* C16: the coordinates of track.kml hold one triple lon,lat,alt for each
\* point that has both a lon and a lat, in track order, the alt being 0
\* whenever the point has no altitude value; a point that lacks lon or lat
\* gives no triple.
C16_KmlCoordinates ==
    ExportWrote =>
        \A kml \in {contents[ExportFile("track.kml")]} :
            /\ Len(kml) = 1 + Cardinality({i \in 1..Len(sorted_tracks) :
                                              C15_Located(sorted_tracks[i])})
            /\ \A i \in 1..Len(sorted_tracks) :
                  C15_Located(sorted_tracks[i]) =>
                      kml[1 + Cardinality({j \in 1..i :
                                              C15_Located(sorted_tracks[j])})]
                          = C16_Triple(sorted_tracks[i])

\* the image of a chart
C17_Image(chart) ==
    IF chart = "map" THEN "map.png"
    ELSE IF chart = "speed" THEN "speed.png"
    ELSE "altitude.png"

\* C17: a failure while the map, the speed chart or the altitude chart is
\* generated (building the geometry, reprojecting, plotting, adding the
\* basemap, saving the figure) never aborts export_flight_data: the failing
\* artifact is skipped, the others are still made, and the call returns the
\* output directory without raising.
C17_ChartFailureNeverAborts ==
    (ExportWrote /\ fault # NoFault) =>
        /\ export_ret = Returned(Some(ExportDir(output_dir, flight_id)))
        /\ \A n \in DataFiles : ExportFile(n) \in files
        /\ \A n \in ChartFiles(sorted_tracks, NoFault) \ {C17_Image(fault.chart)} :
              ExportFile(n) \in files
        /\ \A chart \in {"map", "speed", "altitude"} :
              (/\ chart = fault.chart
               /\ C17_Image(chart) \in ChartFiles(sorted_tracks, NoFault)
               /\ IsNone(first_run))
                  => ExportFile(C17_Image(chart)) \notin files

\* C18: export_flight_data is idempotent with respect to its output
\* directory. After a second call with the same flight id, the same
\* directory and an identical tracks response, data.csv, points.geojson,
\* line.geojson and track.kml hold exactly what they held after the first
\* call; and every file of an export lies in the one directory, which is
\* created when absent and reused when it exists.
C18_RerunIdempotent ==
    /\ ExportWrote =>
          /\ dirs = {ExportDir(output_dir, flight_id)}
          /\ \A f \in files : f.dir = ExportDir(output_dir, flight_id)
          /\ \A n \in DataFiles : ExportFile(n) \in files
          /\ DOMAIN contents = files
    /\ (/\ ExportAnswered
        /\ ~IsNone(first_run)
        /\ Val(tracks_json) = Val(first_run).tracks_json)
          => /\ sorted_tracks = Val(first_run).sorted_tracks
             /\ dirs = Val(first_run).dirs
             /\ \A n \in DataFiles :
                   /\ ExportFile(n) \in files
                         <=> ExportFile(n) \in DOMAIN Val(first_run).contents
                   /\ ExportFile(n) \in files =>
                         contents[ExportFile(n)]
                             = Val(first_run).contents[ExportFile(n)]

\* the second of two calls with the same response has written its files
C18_Witness ==
    /\ ExportWrote
    /\ ~IsNone(first_run)
    /\ Val(tracks_json) = JsonList(<<[tracks |-> <<P1, P2>>]>>)
    /\ Val(first_run).tracks_json = Val(tracks_json)
    /\ sorted_tracks = <<P2, P1>>
    /\ Val(first_run).dirs = {ExportDir(output_dir, flight_id)}
    /\ contents[ExportFile("data.csv")] = CsvText(<<P2, P1>>)

----------------------------------------------------------------------------
(* Properties of the HTTP gateway *)

\* the subclasses of FR24Error (exceptions.py) and FR24Error itself
C19_FR24Errors ==
    {"FR24Error", "FR24AuthenticationError", "FR24RateLimitError",
     "FR24NotFoundError", "FR24ServerError", "FR24ClientError",
     "FR24ValidationError", "FR24ConnectionError"}

\* C19: for every response status and transport outcome of a request made
\* through the client: 401 and 403 raise FR24AuthenticationError, 404
\* FR24NotFoundError, 429 FR24RateLimitError, any 5xx FR24ServerError, any
\* other 4xx FR24ClientError, a connection failure FR24ConnectionError, a
\* status below 400 returns the response; every error raised is an FR24Error.
C19_StatusMapping ==
    (~IsNone(http) /\ requests # <<>>) =>
        \A o \in {Val(http)}, e \in {requests[Len(requests)].raised} :
            /\ o.transport = "response" =>
                  e = IF o.status \in {401, 403} THEN "FR24AuthenticationError"
                      ELSE IF o.status = 404 THEN "FR24NotFoundError"
                      ELSE IF o.status = 429 THEN "FR24RateLimitError"
                      ELSE IF o.status >= 500 THEN "FR24ServerError"
                      ELSE IF o.status >= 400 THEN "FR24ClientError"
                      ELSE ""
            /\ o.transport = "connection_error" => e = "FR24ConnectionError"
            /\ e \in C19_FR24Errors \cup {""}

----------------------------------------------------------------------------
(* Properties of the flight-summary methods *)

\* C20: get_flight_summary_light and get_flight_summary_full reject a
\* flights argument holding an identifier that matches neither the
\* flight-number pattern nor the flight-id pattern (such as invalid!@#): the
\* call raises a validation error, whatever the server would answer.
C20_InvalidFlightsRejected ==
    (/\ entry = "summary"
     /\ pc = "done"
     /\ call.flights # <<>>
     /\ ~ValidateFlights(call.flights))
        => result = ResultRaise("FR24ValidationError")

\* s is of the form the pattern writes: as long as it, a digit for each d
C21_OfForm(pattern, s) ==
    /\ Len(s) = Len(pattern)
    /\ \A i \in 1..Len(s) :
          IF pattern[i] = "d" THEN IsDigit(s[i]) ELSE s[i] = pattern[i]

\* what the claim sends for a date: Some(value), None when it is rejected
C21_Sent(d) ==
    IF C21_OfForm(iso_pattern, d) THEN Some(d)
    ELSE IF C21_OfForm(date_pattern, d) THEN Some(d \o S_T000000Z)
    ELSE None

\* C21: a date passed to a flight-summary method as flight_datetime_from or
\* flight_datetime_to is sent unchanged when it has the form
\* YYYY-MM-DDTHH:MM:SSZ, is sent with T00:00:00Z appended when it has the
\* form YYYY-MM-DD, and any other non-empty value raises FR24ValidationError
\* before any HTTP request is issued.
C21_DateFormatting ==
    (entry = "summary" /\ pc = "done" /\ call.flights # <<>>)
        => \E dates \in {{k \in {"flight_datetime_from", "flight_datetime_to"} :
                            call[k] # <<>>}} :
              IF \E k \in dates : IsNone(C21_Sent(call[k]))
              THEN /\ result = ResultRaise("FR24ValidationError")
                   /\ requests = <<>>
              ELSE /\ Len(requests) = 1
                   /\ \A k \in dates :
                         /\ k \in DOMAIN requests[1].params
                         /\ requests[1].params[k] = Val(C21_Sent(call[k]))

\* the smart-export command has ended
CliDone == entry = "cli" /\ pc = "done"

\* a tracks request for the flight id of the record x was issued
CliExported(x) ==
    \E i \in 1..Len(requests) :
        /\ requests[i].endpoint = "flight-tracks"
        /\ requests[i].raised = ""
        /\ requests[i].params.flight_id = SelFlightId(x)

\* C22: when the smart-export command runs with a flight number and date for
\* which a candidate is selected and its track points are exported, it then
\* writes toplines.json into the export's output directory, with the flight
\* number, the flight id, the date, origin and destination, and finishes
\* without an error exit.
C22_ToplinesWritten ==
    (CliDone /\ Len(Val(env).data) = 1 /\ Val(env).tracks # <<>>)
        => /\ exit_status = Some(0)
           /\ CliExported(Val(env).data[1])
           /\ \E f \in files :
                 /\ f.name = "toplines.json"
                 /\ f.dir \in dirs
                 /\ contents[f].flight_number = Val(args).flight
                 /\ contents[f].flight_id = SelFlightId(Val(env).data[1])
                 /\ contents[f].date = Val(args).date
                 /\ contents[f].origin = SelOrig(Val(env).data[1])
                 /\ contents[f].destination = SelDest(Val(env).data[1])

\* the number a line of decimal digits writes
C23_Decimal(s) ==
    CASE s = "0" -> 0 [] s = "1" -> 1 [] s = "5" -> 5 [] s = "7" -> 7
      [] OTHER -> -1

\* C23: --auto-select accepts 'latest', 'earliest' or an index: when N > 1
\* candidates are found and the flag is given a decimal index i with
\* 0 <= i < N, the command exports candidates[i] without prompting.
C23_AutoSelectIndex ==
    (/\ CliDone
     /\ Len(Val(env).data) > 1
     /\ ~IsNone(Val(args).auto_select)
     /\ C23_Decimal(Val(Val(args).auto_select)) >= 0
     /\ C23_Decimal(Val(Val(args).auto_select)) < Len(Val(env).data))
        => CliExported(Val(env).data[C23_Decimal(Val(Val(args).auto_select)) + 1])

\* max_pages of the call, 5 when it is not passed
C24_MaxPages == IF IsNone(call.max_pages) THEN 5 ELSE Val(call.max_pages)

\* C24: get_flight_ids_by_registration paginates: it fetches successive
\* pages of flight ids by sequential requests, and issues at most max_pages
\* page requests (default 5) for one call. So a call that has ended made at
\* most max_pages requests, and when it returned after a first page that
\* came back full (limit ids) with max_pages > 1, it had requested the next
\* page, at offset + limit.
C24_Paginates ==
    (entry = "flight_ids" /\ pc = "done")
        => /\ Len(requests) <= C24_MaxPages
           /\ (/\ result.kind = "return"
               /\ Len(result.value.data) >= call.limit
               /\ C24_MaxPages > 1)
                 => /\ Len(requests) >= 2
                    /\ requests[2].params.offset = call.offset + call.limit

\* the most recent call of configure_logging
LastLogCall == log_calls[Len(log_calls)]

\* C25: configure_logging called with default parameters returns the logger
\* named 'pyfr24' with its level set to INFO.
C25_DefaultLevelInfo ==
    (log_calls # <<>> /\ LastLogCall = [level |-> None, log_file |-> None,
                                        log_format |-> None])
        => /\ result.kind = "return"
           /\ result.value.name = "pyfr24"
           /\ result.value.level = INFO

\* the handlers the n-th call installs
C26_Installed(n) ==
    <<[class |-> "StreamHandler",
       formatter |-> IF IsNone(log_calls[n].log_format) THEN S_message
                     ELSE Val(log_calls[n].log_format),
       file |-> None, call |-> n]>>
        \o (IF IsNone(log_calls[n].log_file) THEN <<>>
            ELSE <<[class |-> "RotatingFileHandler", formatter |-> S_detailed,
                    file |-> log_calls[n].log_file, call |-> n]>>)

C27_Speed(x) ==
    IF "gspeed" \notin DOMAIN x \/ IsNone(x.gspeed) THEN 0 ELSE Val(x.gspeed)

\* the point passes the filter of the claim
C27_Valid(x) ==
    /\ "timestamp" \in DOMAIN x
    /\ ~IsNone(x.timestamp)
    /\ C21_OfForm(iso_pattern, Val(x.timestamp))
    /\ C27_Speed(x) >= 0
    /\ C27_Speed(x) <= 1000

\* C27: in the speed-over-time chart a track point is plotted if and only if
\* its timestamp is present, non-null and parseable and its speed (gspeed,
\* or 0 when gspeed is absent or null) lies in [0, 1000]; a point without
\* gspeed is kept with speed 0; when no point passes the filter no chart
\* file is written and no error is raised.
C27_SpeedChartFilter ==
    (ExportWrote /\ IsNone(first_run) /\ fault = NoFault)
        => \E valid \in {SelectSeq(sorted_tracks, C27_Valid)} :
              IF valid = <<>>
              THEN /\ ExportFile("speed.png") \notin files
                   /\ export_ret.kind = "return"
              ELSE /\ ExportFile("speed.png") \in files
                   /\ contents[ExportFile("speed.png")]
                         = [i \in 1..Len(valid) |->
                               [timestamp |-> Val(valid[i].timestamp),
                                value |-> C27_Speed(valid[i])]]

\* the requests so far that went to a flight-summary endpoint
C28_SummaryRequests ==
    {i \in 1..Len(requests) :
        requests[i].endpoint \in {"flight-summary/full", "flight-summary/light"}}

\* C28 as worded: every run issues exactly one flight-summary request
C28_Original ==
    pc = "done" => Cardinality(C28_SummaryRequests) = 1

\* C28: a run of smart_export_flight issues at most one flight-summary
\* request, as its first request: exactly one when the date passes
\* validation, none when validation rejects it. A flight-tracks request is
\* issued only after that request was answered and a candidate was selected,
\* for the selected candidate's flight id. With zero candidates, with several
\* candidates and no auto_select, and with several candidates and an invalid
\* auto_select, no tracks request is made and no file or directory is created.
C28_RequestOrder ==
    /\ Len(requests) <= 2
    /\ C28_SummaryRequests \subseteq {1}
    /\ pc = "done" => (C28_SummaryRequests = {1} <=> SummaryRequest.exc = "")
    /\ \A i \in 1..Len(requests) :
          requests[i].endpoint = "flight-tracks"
              => /\ i = 2
                 /\ requests[1].raised = ""
                 /\ ~IsNone(selected)
                 /\ requests[i].params.flight_id = SelFlightId(Val(selected))
    /\ (/\ SummaryArrived
        /\ \/ data = <<>>
           \/ Len(data) > 1 /\ auto_select.type = "none"
           \/ Len(data) > 1 /\ C6_BadAutoSelect(Len(data)))
          => pc = "done" /\ NothingExported

\* a tracks request followed the selection among several candidates
C28_Witness ==
    /\ pc = "done"
    /\ Len(data) > 1
    /\ ~IsNone(selected)
    /\ Len(requests) = 2
    /\ requests[2].endpoint = "flight-tracks"
    /\ requests[2].raised = ""
    /\ files # {}

\* the positions of the typed lines that are an index of a displayed option
C29_ValidLines ==
    {k \in 1..Len(Val(env).stdin) :
        /\ C23_Decimal(Val(env).stdin[k]) >= 0
        /\ C23_Decimal(Val(env).stdin[k]) < Len(Val(env).data)}

\* C29: in the interactive flow (N > 1 candidates, no --auto-select) the
\* command calls smart_export_flight again only with an index the user
\* entered that satisfies 0 <= index < number of displayed options, and the
\* flight then exported is the record displayed at that index.
C29_InteractiveExport ==
    (/\ CliDone
     /\ Len(Val(env).data) > 1
     /\ IsNone(Val(args).auto_select)
     /\ C29_ValidLines # {})
        => \E k \in C29_ValidLines :
              /\ \A j \in C29_ValidLines : k <= j
              /\ CliExported(Val(env).data[C23_Decimal(Val(env).stdin[k]) + 1])

\* smart_export_flight returned a result with selected set
C30_Selected ==
    /\ result.kind = "return"
    /\ ~IsNone(result.value.selected)

\* C30 as worded: selected set implies output_dir set to the directory of the
\* artifacts, also when the tracks response holds no point
C30_Original ==
    C30_Selected
        => /\ ~IsNone(result.value.output_dir)
           /\ Val(result.value.output_dir) \in dirs

\* C30: when smart_export_flight returns a result with selected set and the
\* tracks response held at least one point, output_dir is the directory that
\* holds the exported artifacts; when the tracks response held no point,
\* output_dir is null and no directory and no file was created.
C30_OutputDirUnlessNoPoints ==
    C30_Selected
        => IF tracks = <<>>
           THEN /\ result.value.output_dir = None
                /\ dirs = {}
                /\ files = {}
           ELSE /\ result.value.output_dir = output_dir
                /\ dirs = {Val(output_dir)}
                /\ \A n \in DataFiles :
                      [dir |-> Val(output_dir), name |-> n] \in files

\* a flight was selected and its tracks response held no point
C30_Witness ==
    /\ C30_Selected
    /\ ~IsNone(tracks_json)
    /\ tracks = <<>>
    /\ result.value.output_dir = None
    /\ result.value.selected = selected

====
